---------------------------- MODULE Spec2Model ----------------------------
(***************************************************************************)
(* MobilityGraph: fare functions (app/fares.py), graph construction        *)
(* (mobilitygraph/graph_builder.py), routing (mobilitygraph/router.py) and *)
(* the itinerary endpoint (app/main.py).                                    *)
(*                                                                         *)
(* Representation.  A Python str is a sequence of one-character strings,   *)
(* so that substring tests, prefix stripping, case folding and f-string    *)
(* formatting are computed and not assumed.  Coordinates are integers in   *)
(* units of 0.0001 degree.  Distances are integers in decimetres before    *)
(* rounding; distance_km fields (3 decimals) are integers in metres,       *)
(* time_minutes fields (2 decimals) are integers in 1/100 minute.          *)
(***************************************************************************)
EXTENDS Integers, Sequences, FiniteSets, TLC

(***************************************************************************)
(* Python str operations                                                    *)
(***************************************************************************)
Concat(parts) ==
    LET RECURSIVE cat(_)
        cat(k) == IF k > Len(parts) THEN <<>> ELSE parts[k] \o cat(k + 1)
    IN  cat(1)

StartsWith(s, p) ==
    /\ Len(p) <= Len(s)
    /\ SubSeq(s, 1, Len(p)) = p

\* Python "t in s"
Contains(s, t) ==
    \E i \in 1..(Len(s) - Len(t) + 1) : SubSeq(s, i, i + Len(t) - 1) = t

lower(c) ==
    CASE c = "A" -> "a" [] c = "B" -> "b" [] c = "C" -> "c" [] c = "D" -> "d"
      [] c = "E" -> "e" [] c = "F" -> "f" [] c = "G" -> "g" [] c = "H" -> "h"
      [] c = "I" -> "i" [] c = "J" -> "j" [] c = "K" -> "k" [] c = "L" -> "l"
      [] c = "M" -> "m" [] c = "N" -> "n" [] c = "O" -> "o" [] c = "P" -> "p"
      [] c = "Q" -> "q" [] c = "R" -> "r" [] c = "S" -> "s" [] c = "T" -> "t"
      [] c = "U" -> "u" [] c = "V" -> "v" [] c = "W" -> "w" [] c = "X" -> "x"
      [] c = "Y" -> "y" [] c = "Z" -> "z" [] OTHER -> c

StrLower(s) == [i \in 1..Len(s) |-> lower(s[i])]

\* s.replace(a, b) for one-character a and b
ReplaceChar(s, a, b) == [i \in 1..Len(s) |-> IF s[i] = a THEN b ELSE s[i]]

\* s.strip() over the blank
RECURSIVE LStrip(_)
LStrip(s) == IF s # <<>> /\ Head(s) = " " THEN LStrip(Tail(s)) ELSE s

RECURSIVE RStrip(_)
RStrip(s) ==
    IF s # <<>> /\ s[Len(s)] = " " THEN RStrip(SubSeq(s, 1, Len(s) - 1)) ELSE s

Strip(s) == RStrip(LStrip(s))

\* s.split(): the maximal blank-free words of s, in order
RECURSIVE Split(_)
Split(s) ==
    LET t == LStrip(s)
        RECURSIVE wlen(_)
        wlen(k) == IF k < Len(t) /\ t[k + 1] # " " THEN wlen(k + 1) ELSE k
    IN  IF t = <<>> THEN <<>>
        ELSE LET n == wlen(0)
             IN  <<SubSeq(t, 1, n)>> \o Split(SubSeq(t, n + 1, Len(t)))

\* " ".join(words)
RECURSIVE Join(_)
Join(words) ==
    IF words = <<>> THEN <<>>
    ELSE IF Len(words) = 1 THEN words[1]
    ELSE words[1] \o <<" ">> \o Join(Tail(words))

(***************************************************************************)
(* app/fares.py                                                             *)
(***************************************************************************)
MRT_STATIONS ==
    << <<"L","e","b","a","k"," ","B","u","l","u","s">>,
       <<"F","a","t","m","a","w","a","t","i"," ","I","n","d","o","m","a","r","e","t">>,
       <<"C","i","p","e","t","e"," ","R","a","y","a"," ","T","u","k","u">>,
       <<"H","a","j","i"," ","N","a","w","i">>,
       <<"B","l","o","k"," ","A">>,
       <<"B","l","o","k"," ","M"," ","B","C","A">>,
       <<"A","S","E","A","N">>,
       <<"S","e","n","a","y","a","n"," ","M","a","s","t","e","r","c","a","r","d">>,
       <<"I","s","t","o","r","a"," ","M","a","n","d","i","r","i">>,
       <<"B","e","n","d","u","n","g","a","n"," ","H","i","l","i","r">>,
       <<"S","e","t","i","a","b","u","d","i"," ","A","s","t","r","a">>,
       <<"D","u","k","u","h"," ","A","t","a","s"," ","B","N","I">>,
       <<"B","u","n","d","a","r","a","n"," ","H","I"," ","B","a","n","k"," ","D","K","I">> >>

MRT_FARE_MATRIX ==
    << <<0, 4000, 5000, 6000, 7000, 8000, 9000, 10000, 11000, 12000, 13000, 14000, 14000>>,
       <<4000, 0, 4000, 5000, 6000, 7000, 7000, 9000, 9000, 10000, 11000, 12000, 13000>>,
       <<5000, 4000, 0, 3000, 4000, 5000, 6000, 7000, 8000, 9000, 9000, 10000, 11000>>,
       <<6000, 5000, 3000, 0, 3000, 4000, 5000, 6000, 7000, 8000, 8000, 9000, 10000>>,
       <<7000, 6000, 4000, 3000, 0, 3000, 4000, 5000, 6000, 7000, 7000, 8000, 9000>>,
       <<8000, 7000, 5000, 4000, 3000, 0, 3000, 4000, 5000, 6000, 6000, 7000, 8000>>,
       <<9000, 7000, 6000, 5000, 4000, 3000, 0, 3000, 4000, 5000, 6000, 7000, 7000>>,
       <<10000, 9000, 7000, 6000, 5000, 4000, 3000, 0, 3000, 4000, 4000, 5000, 6000>>,
       <<11000, 9000, 8000, 7000, 6000, 5000, 4000, 3000, 0, 4000, 4000, 5000, 6000>>,
       <<12000, 10000, 9000, 8000, 7000, 6000, 5000, 4000, 3000, 0, 3000, 3000, 4000>>,
       <<13000, 11000, 9000, 8000, 7000, 6000, 6000, 4000, 3000, 3000, 0, 3000, 4000>>,
       <<14000, 12000, 10000, 9000, 8000, 7000, 7000, 5000, 4000, 3000, 3000, 0, 3000>>,
       <<14000, 13000, 11000, 10000, 9000, 8000, 7000, 6000, 5000, 4000, 4000, 3000, 0>> >>

\* the dict as its (key, value) items
MRT_STATION_ALIASES ==
    << <<<<"l","e","b","a","k"," ","b","u","l","u","s"," ","g","r","a","b">>, <<"L","e","b","a","k"," ","B","u","l","u","s">>>>,
       <<<<"l","e","b","a","k"," ","b","u","l","u","s">>, <<"L","e","b","a","k"," ","B","u","l","u","s">>>>,
       <<<<"f","a","t","m","a","w","a","t","i"," ","i","n","d","o","m","a","r","e","t">>, <<"F","a","t","m","a","w","a","t","i"," ","I","n","d","o","m","a","r","e","t">>>>,
       <<<<"f","a","t","m","a","w","a","t","i">>, <<"F","a","t","m","a","w","a","t","i"," ","I","n","d","o","m","a","r","e","t">>>>,
       <<<<"c","i","p","e","t","e"," ","r","a","y","a"," ","t","u","k","u">>, <<"C","i","p","e","t","e"," ","R","a","y","a"," ","T","u","k","u">>>>,
       <<<<"c","i","p","e","t","e"," ","r","a","y","a">>, <<"C","i","p","e","t","e"," ","R","a","y","a"," ","T","u","k","u">>>>,
       <<<<"c","i","p","e","t","e">>, <<"C","i","p","e","t","e"," ","R","a","y","a"," ","T","u","k","u">>>>,
       <<<<"h","a","j","i"," ","n","a","w","i">>, <<"H","a","j","i"," ","N","a","w","i">>>>,
       <<<<"b","l","o","k"," ","a">>, <<"B","l","o","k"," ","A">>>>,
       <<<<"b","l","o","k"," ","m"," ","b","c","a">>, <<"B","l","o","k"," ","M"," ","B","C","A">>>>,
       <<<<"b","l","o","k"," ","m">>, <<"B","l","o","k"," ","M"," ","B","C","A">>>>,
       <<<<"a","s","e","a","n">>, <<"A","S","E","A","N">>>>,
       <<<<"s","e","n","a","y","a","n"," ","m","a","s","t","e","r","c","a","r","d">>, <<"S","e","n","a","y","a","n"," ","M","a","s","t","e","r","c","a","r","d">>>>,
       <<<<"s","e","n","a","y","a","n">>, <<"S","e","n","a","y","a","n"," ","M","a","s","t","e","r","c","a","r","d">>>>,
       <<<<"i","s","t","o","r","a"," ","m","a","n","d","i","r","i">>, <<"I","s","t","o","r","a"," ","M","a","n","d","i","r","i">>>>,
       <<<<"i","s","t","o","r","a">>, <<"I","s","t","o","r","a"," ","M","a","n","d","i","r","i">>>>,
       <<<<"b","e","n","d","u","n","g","a","n"," ","h","i","l","i","r">>, <<"B","e","n","d","u","n","g","a","n"," ","H","i","l","i","r">>>>,
       <<<<"b","e","n","h","i","l">>, <<"B","e","n","d","u","n","g","a","n"," ","H","i","l","i","r">>>>,
       <<<<"s","e","t","i","a","b","u","d","i"," ","a","s","t","r","a">>, <<"S","e","t","i","a","b","u","d","i"," ","A","s","t","r","a">>>>,
       <<<<"s","e","t","i","a","b","u","d","i">>, <<"S","e","t","i","a","b","u","d","i"," ","A","s","t","r","a">>>>,
       <<<<"d","u","k","u","h"," ","a","t","a","s"," ","b","n","i">>, <<"D","u","k","u","h"," ","A","t","a","s"," ","B","N","I">>>>,
       <<<<"d","u","k","u","h"," ","a","t","a","s">>, <<"D","u","k","u","h"," ","A","t","a","s"," ","B","N","I">>>>,
       <<<<"b","u","n","d","a","r","a","n"," ","h","i"," ","b","a","n","k"," ","d","k","i">>, <<"B","u","n","d","a","r","a","n"," ","H","I"," ","B","a","n","k"," ","D","K","I">>>>,
       <<<<"b","u","n","d","a","r","a","n"," ","h","i">>, <<"B","u","n","d","a","r","a","n"," ","H","I"," ","B","a","n","k"," ","D","K","I">>>>,
       <<<<"b","u","n","d","a","r","a","n"," ","h","o","t","e","l"," ","i","n","d","o","n","e","s","i","a">>, <<"B","u","n","d","a","r","a","n"," ","H","I"," ","B","a","n","k"," ","D","K","I">>>> >>

TJ_FARE_PER_HOP == 3500
LRT_BASE_FARE == 5000
LRT_FARE_PER_KM == 700

\* Python None where an int is expected
NoIndex == -1

StationPrefixes == << <<"s","t","a","s","i","u","n"," ","m","r","t"," ">>, <<"s","t","a","s","i","u","n"," ","l","r","t"," ">>, <<"h","a","l","t","e"," ">>, <<"s","t","a","t","i","o","n"," ">> >>

normalize_station_name(name) ==
    LET RECURSIVE strip_prefixes(_, _)
        strip_prefixes(s, k) ==
            IF k > Len(StationPrefixes) THEN s
            ELSE IF StartsWith(s, StationPrefixes[k])
                 THEN strip_prefixes(SubSeq(s, Len(StationPrefixes[k]) + 1, Len(s)), k + 1)
                 ELSE strip_prefixes(s, k + 1)
        stripped == strip_prefixes(StrLower(name), 1)
        joined   == Join(Split(stripped))
    IN  Strip(ReplaceChar(ReplaceChar(joined, "-", " "), "_", " "))

\* MRT_STATIONS.index(canonical), 0-based; NoIndex on ValueError
StationListIndex(canonical) ==
    IF \E i \in 1..Len(MRT_STATIONS) : MRT_STATIONS[i] = canonical
    THEN (CHOOSE i \in 1..Len(MRT_STATIONS) :
             /\ MRT_STATIONS[i] = canonical
             /\ \A j \in 1..(i - 1) : MRT_STATIONS[j] # canonical) - 1
    ELSE NoIndex

get_mrt_station_index(station_name) ==
    LET normalized == normalize_station_name(station_name)
        aliasHit == {k \in 1..Len(MRT_STATION_ALIASES) : MRT_STATION_ALIASES[k][1] = normalized}
        byAlias ==
            IF aliasHit = {} THEN NoIndex
            ELSE StationListIndex(MRT_STATION_ALIASES[CHOOSE k \in aliasHit : TRUE][2])
        fuzzyHit == {i \in 1..Len(MRT_STATIONS) :
                        \/ Contains(normalized, StrLower(MRT_STATIONS[i]))
                        \/ Contains(StrLower(MRT_STATIONS[i]), normalized)}
    IN  IF byAlias # NoIndex THEN byAlias
        ELSE IF fuzzyHit = {} THEN NoIndex
        ELSE (CHOOSE i \in fuzzyHit : \A j \in fuzzyHit : i <= j) - 1

MrtFallbackFare == 7000

calculate_mrt_fare(from_station, to_station) ==
    LET from_idx == get_mrt_station_index(from_station)
        to_idx   == get_mrt_station_index(to_station)
    IN  IF from_idx = NoIndex \/ to_idx = NoIndex
        THEN MrtFallbackFare
        ELSE MRT_FARE_MATRIX[from_idx + 1][to_idx + 1]

\* hops is ignored: a flat rate per trip
calculate_tj_fare(hops) == TJ_FARE_PER_HOP

\* a fare that charges only the whole kilometres beyond the first
calculate_lrt_fare_floor(distance_m) ==
    IF distance_m <= 1000 THEN LRT_BASE_FARE
    ELSE LRT_BASE_FARE + ((distance_m - 1000) \div 1000) * LRT_FARE_PER_KM

\* distance in metres (distance_km * 1000); math.ceil(distance_km - 1) kilometres
calculate_lrt_fare(distance_m) ==
    IF distance_m <= 1000 THEN LRT_BASE_FARE
    ELSE LET additional_km == (distance_m - 1000 + 999) \div 1000
         IN  LRT_BASE_FARE + additional_km * LRT_FARE_PER_KM

calculate_walk_fare == 0

(***************************************************************************)
(* Arithmetic on the integer representation                                 *)
(***************************************************************************)
Abs(a) == IF a < 0 THEN -a ELSE a

\* Python int(a / b) for b > 0: truncation toward zero
TruncDiv(a, b) == IF a >= 0 THEN a \div b ELSE -((-a) \div b)

\* round(a / b) for a >= 0, b > 0, ties to even as Python's round
RoundDiv(a, b) ==
    LET q == a \div b
        r == a % b
    IN  IF 2 * r > b THEN q + 1
        ELSE IF 2 * r = b THEN q + (q % 2)
        ELSE q

\* the integer nearest to the square root of n >= 0
RoundSqrt(n) ==
    LET RECURSIVE newton(_)
        newton(x) == LET y == (x + n \div x) \div 2
                     IN  IF y >= x THEN x ELSE newton(y)
        r == IF n = 0 THEN 0 ELSE newton(n)
    IN  IF n - r * r > r THEN r + 1 ELSE r

\* decimetres per 0.0001 degree at 111 km per degree
DmPerUnit == 111

\* distance in decimetres between two coordinates given in 0.0001 degree
GroundDistance(lat1, long1, lat2, long2) ==
    RoundSqrt(((lat1 - lat2) * DmPerUnit) * ((lat1 - lat2) * DmPerUnit)
              + ((long1 - long2) * DmPerUnit) * ((long1 - long2) * DmPerUnit))

\* geopy.distance.geodesic(a, b).kilometers, in decimetres
geodesic(lat1, long1, lat2, long2) == GroundDistance(lat1, long1, lat2, long2)

(***************************************************************************)
(* The data source: stop rows and routes of the RDF store                   *)
(***************************************************************************)
MRT == <<"M","R","T">>
LRT == <<"L","R","T">>
TJ  == <<"T","J">>
ALL == <<"A","L","L">>
WALK == <<"W","A","L","K">>

BaseLat == -62000
BaseLong == 1068000

StopRow(uri, name, y, x) ==
    [uri |-> uri, name |-> name, lat |-> BaseLat + y, long |-> BaseLong + x]

\* rows of the tr:StopPoint query, in result order
AllStopRows ==
    << StopRow(<<"h","t","t","p",":","/","/","m","g",".","i","d","/","m","#","S","t","o","p","_","M","R","T","_","0","1">>, <<"S","t","a","s","i","u","n"," ","M","R","T"," ","I","s","t","o","r","a"," ","M","a","n","d","i","r","i">>, 0, 0),
       StopRow(<<"h","t","t","p",":","/","/","m","g",".","i","d","/","m","#","S","t","o","p","_","T","J","_","0","1">>, <<"H","a","l","t","e"," ","P","o","l","d","a">>, 30, 0),
       StopRow(<<"h","t","t","p",":","/","/","m","g",".","i","d","/","m","#","S","t","o","p","_","M","R","T","_","0","2">>, <<"S","t","a","s","i","u","n"," ","M","R","T"," ","B","e","n","d","u","n","g","a","n"," ","H","i","l","i","r">>, 0, 60),
       StopRow(<<"h","t","t","p",":","/","/","m","g",".","i","d","/","m","#","S","t","o","p","_","T","J","_","0","9">>, <<"H","a","l","t","e"," ","R","a","g","u","n","a","n">>, -200, 240),
       StopRow(<<"h","t","t","p",":","/","/","m","g",".","i","d","/","m","#","S","t","o","p","_","T","J","_","0","2">>, <<"H","a","l","t","e"," ","B","e","n","d","u","n","g","a","n"," ","H","i","l","i","r">>, 40, 60),
       StopRow(<<"h","t","t","p",":","/","/","m","g",".","i","d","/","m","#","S","t","o","p","_","M","R","T","_","0","3">>, <<"S","t","a","s","i","u","n"," ","M","R","T"," ","S","e","t","i","a","b","u","d","i"," ","A","s","t","r","a">>, 0, 120),
       StopRow(<<"h","t","t","p",":","/","/","m","g",".","i","d","/","m","#","S","t","o","p","_","L","R","T","_","0","1">>, <<"S","t","a","s","i","u","n"," ","L","R","T"," ","D","u","k","u","h"," ","A","t","a","s">>, -40, 120),
       StopRow(<<"h","t","t","p",":","/","/","m","g",".","i","d","/","m","#","S","t","o","p","_","L","R","T","_","0","2">>, <<"S","t","a","s","i","u","n"," ","L","R","T"," ","R","a","s","u","n","a"," ","S","a","i","d">>, -40, 200),
       StopRow(<<"h","t","t","p",":","/","/","m","g",".","i","d","/","m","#","S","t","o","p","_","T","J","_","0","3">>, <<"H","a","l","t","e"," ","S","e","t","i","a","b","u","d","i">>, 30, 130),
       StopRow(<<"h","t","t","p",":","/","/","m","g",".","i","d","/","s","t","o","p","s","/","H","a","l","t","e","_","K","a","r","e","t">>, <<"H","a","l","t","e"," ","K","a","r","e","t">>, 40, 10) >>

\* rows of the tr:Route query grouped by route, in result order
AllRoutes ==
    << [uri |-> <<"h","t","t","p",":","/","/","m","g",".","i","d","/","m","#","R","o","u","t","e","_","M","R","T","_","N","S">>, name |-> <<"M","R","T"," ","N","o","r","t","h","-","S","o","u","t","h">>,
        stops |-> << <<"h","t","t","p",":","/","/","m","g",".","i","d","/","m","#","S","t","o","p","_","M","R","T","_","0","1">>, <<"h","t","t","p",":","/","/","m","g",".","i","d","/","m","#","S","t","o","p","_","M","R","T","_","0","2">>,
                     <<"h","t","t","p",":","/","/","m","g",".","i","d","/","m","#","S","t","o","p","_","M","R","T","_","9","9">>, <<"h","t","t","p",":","/","/","m","g",".","i","d","/","m","#","S","t","o","p","_","M","R","T","_","0","3">> >>],
       [uri |-> <<"h","t","t","p",":","/","/","m","g",".","i","d","/","m","#","R","o","u","t","e","_","L","R","T","_","J","B">>, name |-> <<"L","R","T"," ","J","a","b","o","d","e","b","e","k">>,
        stops |-> << <<"h","t","t","p",":","/","/","m","g",".","i","d","/","m","#","S","t","o","p","_","L","R","T","_","0","1">>, <<"h","t","t","p",":","/","/","m","g",".","i","d","/","m","#","S","t","o","p","_","L","R","T","_","0","2">> >>],
       [uri |-> <<"h","t","t","p",":","/","/","m","g",".","i","d","/","m","#","R","o","u","t","e","_","T","J","_","1","E">>, name |-> <<"K","o","r","i","d","o","r"," ","1"," ","E","k","s","p","r","e","s">>,
        stops |-> << <<"h","t","t","p",":","/","/","m","g",".","i","d","/","m","#","S","t","o","p","_","T","J","_","0","1">>, <<"h","t","t","p",":","/","/","m","g",".","i","d","/","m","#","S","t","o","p","_","T","J","_","0","3">> >>] >>

\* rows of the tr:StopPoint query over a data source that holds one bus
\* corridor: five surface stops 333 m apart along one street, the last one
\* 22 m from the destination monas
CorridorStopRows ==
    << StopRow(<<"h","t","t","p",":","/","/","m","g",".","i","d","/","m","#","S","t","o","p","_","T","J","_","0","1">>, <<"H","a","l","t","e"," ","P","o","l","d","a">>, 2, 0),
       StopRow(<<"h","t","t","p",":","/","/","m","g",".","i","d","/","m","#","S","t","o","p","_","T","J","_","0","2">>, <<"H","a","l","t","e"," ","B","e","n","d","u","n","g","a","n"," ","H","i","l","i","r">>, 2, 30),
       StopRow(<<"h","t","t","p",":","/","/","m","g",".","i","d","/","s","t","o","p","s","/","H","a","l","t","e","_","K","a","r","e","t">>, <<"H","a","l","t","e"," ","K","a","r","e","t">>, 2, 60),
       StopRow(<<"h","t","t","p",":","/","/","m","g",".","i","d","/","m","#","S","t","o","p","_","T","J","_","0","3">>, <<"H","a","l","t","e"," ","S","e","t","i","a","b","u","d","i">>, 2, 90),
       StopRow(<<"h","t","t","p",":","/","/","m","g",".","i","d","/","m","#","S","t","o","p","_","T","J","_","0","9">>, <<"H","a","l","t","e"," ","R","a","g","u","n","a","n">>, 2, 120) >>

\* the most stops the data source holds
MaxStops == 9

(***************************************************************************)
(* mobilitygraph/loader.py                                                  *)
(***************************************************************************)
\* s.split(sep)[-1] for a one-character sep
RECURSIVE LastAfter(_, _)
LastAfter(s, sep) ==
    IF \E i \in 1..Len(s) : s[i] = sep
    THEN LastAfter(SubSeq(s, (CHOOSE i \in 1..Len(s) :
                                 s[i] = sep /\ \A j \in 1..(i - 1) : s[j] # sep) + 1, Len(s)), sep)
    ELSE s

\* uri.split("#")[-1] if "#" in uri else uri.split("/")[-1]
LocalId(uri) ==
    IF Contains(uri, <<"#">>) THEN LastAfter(uri, "#") ELSE LastAfter(uri, "/")

NoMode == <<>>

\* MobilityGraphLoader.get_stops(mode) over the loaded rows
get_stops(rows, mode) ==
    LET keep(row) ==
            LET stop_id == LocalId(row.uri)
            IN  IF mode # NoMode
                THEN ~ \/ (mode = MRT /\ ~Contains(stop_id, MRT))
                       \/ (mode = LRT /\ ~Contains(stop_id, LRT))
                       \/ (mode = TJ /\ (Contains(stop_id, MRT) \/ Contains(stop_id, LRT)))
                ELSE TRUE
        kept == SelectSeq(rows, keep)
    IN  [k \in 1..Len(kept) |->
            [id |-> LocalId(kept[k].uri), uri |-> kept[k].uri, name |-> kept[k].name,
             lat |-> kept[k].lat, long |-> kept[k].long]]

\* MobilityGraphLoader.get_routes()
get_routes ==
    [k \in 1..Len(AllRoutes) |->
        [id |-> LocalId(AllRoutes[k].uri), name |-> AllRoutes[k].name,
         stops |-> AllRoutes[k].stops]]

(***************************************************************************)
(* Python dict and networkx.DiGraph                                         *)
(***************************************************************************)
\* Insertion-ordered mapping semantics: writing the items in order, a key
\* keeps the position of its first write and the value of its last write.
LastWins(items, SameKey(_, _)) ==
    LET idx == [k \in 1..Len(items) |-> k]
        is_first(k) == \A j \in 1..(k - 1) : ~SameKey(items[j], items[k])
        firsts == SelectSeq(idx, is_first)
        last(k) == CHOOSE j \in 1..Len(items) :
                      /\ SameKey(items[j], items[k])
                      /\ \A j2 \in (j + 1)..Len(items) : ~SameKey(items[j2], items[k])
    IN  [n \in 1..Len(firsts) |-> items[last(firsts[n])]]

SameId(a, b) == a.id = b.id
SameEnds(a, b) == a.u = b.u /\ a.v = b.v

\* a dict keyed by id, kept as its items in insertion order
DictHas(d, id) == \E k \in 1..Len(d) : d[k].id = id
DictGet(d, id) == d[CHOOSE k \in 1..Len(d) : d[k].id = id]
DictFromList(items) == LastWins(items, SameId)

EmptyGraph == [nodes |-> <<>>, edges |-> <<>>]

HasNode(g, id) == \E k \in 1..Len(g.nodes) : g.nodes[k].id = id
EdgeData(g, u, v) == g.edges[CHOOSE k \in 1..Len(g.edges) : g.edges[k].u = u /\ g.edges[k].v = v]

\* nx.DiGraph.add_node for each node in order: an existing node is updated
add_nodes(g, nodes) == [g EXCEPT !.nodes = LastWins(g.nodes \o nodes, SameId)]

\* nx.DiGraph.add_edge for each edge in order: one edge per (u, v), a
\* second add replaces its data and keeps its place in the adjacency
add_edges(g, edges) == [g EXCEPT !.edges = LastWins(g.edges \o edges, SameEnds)]

Edge(u, v, data, line) ==
    [u |-> u, v |-> v, distance_km |-> data.distance_km,
     time_minutes |-> data.time_minutes, cost_idr |-> data.cost_idr,
     mode |-> data.mode, is_transfer |-> data.is_transfer, line |-> line]

(***************************************************************************)
(* mobilitygraph/graph_builder.py                                           *)
(***************************************************************************)
TRANSFER_PENALTY == 5

SPEEDS(mode) ==
    CASE mode = MRT -> 40
      [] mode = LRT -> 35
      [] mode = TJ  -> 20
      [] OTHER      -> 20

_get_mode_from_id(stop_id) ==
    IF Contains(stop_id, MRT) THEN MRT
    ELSE IF Contains(stop_id, LRT) THEN LRT
    ELSE TJ

_calculate_distance(stop1, stop2) ==
    geodesic(stop1.lat, stop1.long, stop2.lat, stop2.long)

\* distance in decimetres; distance_km in metres, time_minutes in 1/100 min
_calculate_edge_weight(distance_dm, mode, is_transfer) ==
    LET speed == SPEEDS(mode)
        cost  == IF mode = TJ THEN 0 ELSE distance_dm \div 10
        time  == RoundDiv(distance_dm * 6, speed * 10)
                 + (IF is_transfer THEN TRANSFER_PENALTY * 100 ELSE 0)
    IN  [distance_km |-> RoundDiv(distance_dm, 10),
         time_minutes |-> time,
         cost_idr |-> cost,
         mode |-> mode,
         is_transfer |-> is_transfer]

\* the add_edge calls of _build_route_edges, in call order
RouteEdgeCalls(stops_by_id) ==
    LET routes == get_routes
        of_route(route) ==
            LET mode == IF Contains(route.id, MRT) THEN MRT ELSE LRT
                ids == [k \in 1..Len(route.stops) |-> LocalId(route.stops[k])]
                present(id) == DictHas(stops_by_id, id)
                stop_ids == SelectSeq(ids, present)
                pair(i) ==
                    LET from_stop == DictGet(stops_by_id, stop_ids[i])
                        to_stop   == DictGet(stops_by_id, stop_ids[i + 1])
                        distance  == _calculate_distance(from_stop, to_stop)
                        edge_data == _calculate_edge_weight(distance, mode, FALSE)
                    IN  << Edge(stop_ids[i], stop_ids[i + 1], edge_data, route.name),
                           Edge(stop_ids[i + 1], stop_ids[i], edge_data, route.name) >>
            IN  Concat([i \in 1..(Len(stop_ids) - 1) |-> pair(i)])
    IN  Concat([r \in 1..Len(routes) |-> of_route(routes[r])])

_build_route_edges(g, stops_by_id) == add_edges(g, RouteEdgeCalls(stops_by_id))

\* BIN_SIZE = 0.01 degree, in units of 0.0001 degree
BIN_SIZE == 100
MAX_CONNECTIONS == 3
\* 1.5 km and 0.5 km in decimetres
TjThresholdDm == 15000
MAX_TRANSFER_DISTANCE == 5000

\* list.sort(key = distance): stable, ascending
RECURSIVE SortByDist(_)
SortByDist(items) ==
    IF items = <<>> THEN <<>>
    ELSE LET rest == SortByDist(SubSeq(items, 1, Len(items) - 1))
             x    == items[Len(items)]
             RECURSIVE ins(_)
             ins(k) == IF k >= 1 /\ rest[k].dist > x.dist THEN ins(k - 1) ELSE k
             pos == ins(Len(rest))
         IN  SubSeq(rest, 1, pos) \o <<x>> \o SubSeq(rest, pos + 1, Len(rest))

\* proximity edges to every stop in range, with no cap
TjEdgeCallsUncapped(stops_by_id) ==
    LET is_tj(s) == _get_mode_from_id(s.id) = TJ
        tj_stops == SelectSeq(stops_by_id, is_tj)
        bin_key(s) == <<TruncDiv(s.lat, BIN_SIZE), TruncDiv(s.long, BIN_SIZE)>>
        \* bins[key]: the stops of the cell, in tj_stops order
        bin(key) == LET in_cell(s) == bin_key(s) = key IN SelectSeq(tj_stops, in_cell)
        offsets == << <<-1, -1>>, <<-1, 0>>, <<-1, 1>>, <<0, -1>>, <<0, 0>>,
                      <<0, 1>>, <<1, -1>>, <<1, 0>>, <<1, 1>> >>
        planar(s1, s2) == GroundDistance(s1.lat, s1.long, s2.lat, s2.long)
        nearby(stop1) ==
            LET cell_of(o) ==
                    LET key == <<bin_key(stop1)[1] + offsets[o][1],
                                 bin_key(stop1)[2] + offsets[o][2]>>
                        ok(s2) == s2.id # stop1.id /\ planar(stop1, s2) <= TjThresholdDm
                        cell == SelectSeq(bin(key), ok)
                    IN  [k \in 1..Len(cell) |->
                            [stop |-> cell[k], dist |-> planar(stop1, cell[k])]]
            IN  Concat([o \in 1..Len(offsets) |-> cell_of(o)])
        of_stop(stop1) ==
            LET sorted == SortByDist(nearby(stop1))
                chosen == sorted
            IN  [k \in 1..Len(chosen) |->
                    Edge(stop1.id, chosen[k].stop.id,
                         _calculate_edge_weight(chosen[k].dist, TJ, FALSE),
                         <<"T","r","a","n","s","J","a","k","a","r","t","a">>)]
    IN  Concat([i \in 1..Len(tj_stops) |-> of_stop(tj_stops[i])])

\* the add_edge calls of _build_tj_edges, in call order
TjEdgeCalls(stops_by_id) ==
    LET is_tj(s) == _get_mode_from_id(s.id) = TJ
        tj_stops == SelectSeq(stops_by_id, is_tj)
        bin_key(s) == <<TruncDiv(s.lat, BIN_SIZE), TruncDiv(s.long, BIN_SIZE)>>
        \* bins[key]: the stops of the cell, in tj_stops order
        bin(key) == LET in_cell(s) == bin_key(s) = key IN SelectSeq(tj_stops, in_cell)
        offsets == << <<-1, -1>>, <<-1, 0>>, <<-1, 1>>, <<0, -1>>, <<0, 0>>,
                      <<0, 1>>, <<1, -1>>, <<1, 0>>, <<1, 1>> >>
        planar(s1, s2) == GroundDistance(s1.lat, s1.long, s2.lat, s2.long)
        nearby(stop1) ==
            LET cell_of(o) ==
                    LET key == <<bin_key(stop1)[1] + offsets[o][1],
                                 bin_key(stop1)[2] + offsets[o][2]>>
                        ok(s2) == s2.id # stop1.id /\ planar(stop1, s2) <= TjThresholdDm
                        cell == SelectSeq(bin(key), ok)
                    IN  [k \in 1..Len(cell) |->
                            [stop |-> cell[k], dist |-> planar(stop1, cell[k])]]
            IN  Concat([o \in 1..Len(offsets) |-> cell_of(o)])
        of_stop(stop1) ==
            LET sorted == SortByDist(nearby(stop1))
                chosen == SubSeq(sorted, 1, IF Len(sorted) < MAX_CONNECTIONS
                                            THEN Len(sorted) ELSE MAX_CONNECTIONS)
            IN  [k \in 1..Len(chosen) |->
                    Edge(stop1.id, chosen[k].stop.id,
                         _calculate_edge_weight(chosen[k].dist, TJ, FALSE),
                         <<"T","r","a","n","s","J","a","k","a","r","t","a">>)]
    IN  Concat([i \in 1..Len(tj_stops) |-> of_stop(tj_stops[i])])

_build_tj_edges(g, stops_by_id) == add_edges(g, TjEdgeCalls(stops_by_id))

\* transfer edges weighted by the mode of the stop they leave
TransferEdgeCallsBySource(stops_by_id) ==
    LET stops == stops_by_id
        pair(i, j) ==
            LET stop1 == stops[i]
                stop2 == stops[j]
                mode1 == _get_mode_from_id(stop1.id)
                mode2 == _get_mode_from_id(stop2.id)
                distance == _calculate_distance(stop1, stop2)
            IN  IF mode1 # mode2 /\ distance <= MAX_TRANSFER_DISTANCE
                THEN << Edge(stop1.id, stop2.id, _calculate_edge_weight(distance, mode1, TRUE),
                             Concat(<< <<"T","r","a","n","s","f","e","r"," ">>, mode1, <<"-">>, mode2 >>)),
                        Edge(stop2.id, stop1.id, _calculate_edge_weight(distance, mode2, TRUE),
                             Concat(<< <<"T","r","a","n","s","f","e","r"," ">>, mode2, <<"-">>, mode1 >>)) >>
                ELSE <<>>
        of_stop(i) == Concat([d \in 1..(Len(stops) - i) |-> pair(i, i + d)])
    IN  Concat([i \in 1..Len(stops) |-> of_stop(i)])

\* the add_edge calls of _build_transfer_edges, in call order
TransferEdgeCalls(stops_by_id) ==
    LET stops == stops_by_id
        pair(i, j) ==
            LET stop1 == stops[i]
                stop2 == stops[j]
                mode1 == _get_mode_from_id(stop1.id)
                mode2 == _get_mode_from_id(stop2.id)
                distance == _calculate_distance(stop1, stop2)
            IN  IF mode1 # mode2 /\ distance <= MAX_TRANSFER_DISTANCE
                THEN LET edge_data == _calculate_edge_weight(distance, mode2, TRUE)
                         edge_data_reverse == _calculate_edge_weight(distance, mode1, TRUE)
                     IN  << Edge(stop1.id, stop2.id, edge_data,
                                 Concat(<< <<"T","r","a","n","s","f","e","r"," ">>, mode1, <<"-">>, mode2 >>)),
                            Edge(stop2.id, stop1.id, edge_data_reverse,
                                 Concat(<< <<"T","r","a","n","s","f","e","r"," ">>, mode2, <<"-">>, mode1 >>)) >>
                ELSE <<>>
        of_stop(i) == Concat([d \in 1..(Len(stops) - i) |-> pair(i, i + d)])
    IN  Concat([i \in 1..Len(stops) |-> of_stop(i)])

_build_transfer_edges(g, stops_by_id) == add_edges(g, TransferEdgeCalls(stops_by_id))

\* the nodes build_graph adds, one for each loaded stop
StopNodes(stops) ==
    [k \in 1..Len(stops) |->
        [id |-> stops[k].id, name |-> stops[k].name,
         lat |-> stops[k].lat, long |-> stops[k].long,
         mode |-> _get_mode_from_id(stops[k].id)]]

\* build_graph from "Build edges from routes" on: route, proximity and
\* transfer edges, in this order
BuildEdges(g, stops_by_id) ==
    [stops_by_id |-> stops_by_id,
     graph |-> _build_transfer_edges(
                   _build_tj_edges(_build_route_edges(g, stops_by_id), stops_by_id),
                   stops_by_id)]

\* build_graph once the stops are loaded
BuildFromStops(g, stops) == BuildEdges(add_nodes(g, StopNodes(stops)), DictFromList(stops))

\* GraphBuilder.build_graph on a builder whose graph is g; yields the new
\* stops_by_id and the graph after nodes, route, proximity and transfer edges
build_graph(g, rows) == BuildFromStops(g, get_stops(rows, NoMode))

\* a filter that keeps every edge of the mode, whatever its end points
get_filtered_graph_by_edges(g, mode) ==
    IF mode = NoMode \/ mode = ALL THEN g
    ELSE LET edge_ok(e) == e.mode = mode
             edges == SelectSeq(g.edges, edge_ok)
             node_ok(n) == \/ n.mode = mode
                           \/ \E k \in 1..Len(edges) : edges[k].u = n.id \/ edges[k].v = n.id
         IN  [nodes |-> SelectSeq(g.nodes, node_ok), edges |-> edges]

get_filtered_graph(g, mode) ==
    IF mode = NoMode \/ mode = ALL THEN g
    ELSE LET node_ok(n) == n.mode = mode
             filtered_nodes == SelectSeq(g.nodes, node_ok)
             in_sub(e) == /\ \E k \in 1..Len(filtered_nodes) : filtered_nodes[k].id = e.u
                          /\ \E k \in 1..Len(filtered_nodes) : filtered_nodes[k].id = e.v
             edge_ok(e) == in_sub(e) /\ e.mode = mode
         IN  [nodes |-> filtered_nodes, edges |-> SelectSeq(g.edges, edge_ok)]

\* Python None where a stop is expected
NoStop == [id |-> <<>>]

find_nearest_stop(stops_by_id, lat, long, mode) ==
    LET cand(s) == ~(mode # NoMode /\ _get_mode_from_id(s.id) # mode)
        cands == SelectSeq(stops_by_id, cand)
        dist(s) == geodesic(lat, long, s.lat, s.long)
    IN  IF cands = <<>> THEN NoStop
        ELSE LET k == CHOOSE k \in 1..Len(cands) :
                         /\ \A j \in 1..Len(cands) : dist(cands[k]) <= dist(cands[j])
                         /\ \A j \in 1..(k - 1) : dist(cands[j]) > dist(cands[k])
             IN  [id |-> cands[k].id, uri |-> cands[k].uri, name |-> cands[k].name,
                  lat |-> cands[k].lat, long |-> cands[k].long,
                  distance_km |-> RoundDiv(dist(cands[k]), 10)]

(***************************************************************************)
(* networkx.dijkstra_path                                                   *)
(***************************************************************************)
\* a weight that ignores the requested attribute: every edge counts 1
EdgeWeightHops(e, weight) == 1

\* the weight function networkx derives from a string: data.get(weight, 1)
EdgeWeight(e, weight) ==
    CASE weight = "time_minutes" -> e.time_minutes
      [] weight = "distance_km"  -> e.distance_km
      [] weight = "cost_idr"     -> e.cost_idr
      [] OTHER                   -> 1

NodeIds(g) == {g.nodes[k].id : k \in 1..Len(g.nodes)}

\* successors of v in adjacency (first insertion) order
Successors(g, v) == LET from_v(e) == e.u = v IN SelectSeq(g.edges, from_v)

Unset == -1

\* The search of networkx _dijkstra_multisource with one source and a
\* target: a heap of (distance, push counter, node); a popped node that is
\* already final is skipped; a neighbour is pushed when it is unseen or
\* strictly improved.  Yields [path |-> ...] or [raised |-> exception name].
dijkstra_path(g, source, target, weight) ==
    LET ids == NodeIds(g)
        st0 == [dist   |-> [n \in ids |-> Unset],
                seen   |-> [n \in ids |-> IF n = source THEN 0 ELSE Unset],
                paths  |-> [n \in ids |-> IF n = source THEN <<source>> ELSE <<>>],
                fringe |-> {[d |-> 0, c |-> 0, v |-> source]},
                c      |-> 1]
        RECURSIVE loop(_)
        loop(st) ==
            LET live == {e \in st.fringe : st.dist[e.v] = Unset}
            IN  IF live = {} THEN [raised |-> "NetworkXNoPath"]
                ELSE
                LET top == CHOOSE e \in live : \A f \in live :
                               \/ e.d < f.d
                               \/ (e.d = f.d /\ e.c <= f.c)
                    v == top.v
                    dist1 == [st.dist EXCEPT ![v] = top.d]
                    succ == Successors(g, v)
                    vu_dist(k) == top.d + EdgeWeight(succ[k], weight)
                    pushes(k) ==
                        /\ succ[k].v \in ids
                        /\ dist1[succ[k].v] = Unset
                        /\ \/ st.seen[succ[k].v] = Unset
                           \/ vu_dist(k) < st.seen[succ[k].v]
                    pushed == {k \in 1..Len(succ) : pushes(k)}
                    count(k) == st.c + Cardinality({j \in pushed : j < k})
                    st1 == [dist   |-> dist1,
                            seen   |-> [n \in ids |->
                                          IF \E k \in pushed : succ[k].v = n
                                          THEN vu_dist(CHOOSE k \in pushed : succ[k].v = n)
                                          ELSE st.seen[n]],
                            paths  |-> [n \in ids |->
                                          IF \E k \in pushed : succ[k].v = n
                                          THEN Append(st.paths[v], n)
                                          ELSE st.paths[n]],
                            fringe |-> (st.fringe \ {top}) \cup
                                       {[d |-> vu_dist(k), c |-> count(k), v |-> succ[k].v] :
                                           k \in pushed},
                            c      |-> st.c + Cardinality(pushed)]
                IN  IF v = target THEN [path |-> st.paths[v]]
                    ELSE loop(st1)
    IN  IF source \notin ids THEN [raised |-> "NodeNotFound"]
        ELSE loop(st0)

(***************************************************************************)
(* mobilitygraph/router.py                                                  *)
(***************************************************************************)
\* dict.get(id, {}) followed by .get("name", id)
StopName(stops_by_id, id) ==
    IF DictHas(stops_by_id, id) THEN DictGet(stops_by_id, id).name ELSE id

\* sum of a field over a sequence of legs
RECURSIVE SumOver(_, _)
SumOver(legs, field) ==
    IF legs = <<>> THEN 0
    ELSE legs[Len(legs)][field] + SumOver(SubSeq(legs, 1, Len(legs) - 1), field)

\* the fares charged at entry: the MRT and LRT fare on the first leg
_apply_cost_to_segment_at_entry(legs, mode) ==
    IF mode = MRT THEN
        [legs EXCEPT ![1].cost_idr =
            calculate_mrt_fare(legs[1].from_name, legs[Len(legs)].to_name)]
    ELSE IF mode = LRT THEN
        [legs EXCEPT ![1].cost_idr = calculate_lrt_fare(SumOver(legs, "distance_km"))]
    ELSE IF mode = TJ THEN
        [legs EXCEPT ![1].cost_idr = calculate_tj_fare(1)]
    ELSE legs

\* legs: one continuous segment of a single mode
_apply_cost_to_segment(legs, mode) ==
    IF mode = MRT THEN
        LET start_stop == legs[1].from_name
            end_stop   == legs[Len(legs)].to_name
            cost       == calculate_mrt_fare(start_stop, end_stop)
        IN  [legs EXCEPT ![Len(legs)].cost_idr = cost]
    ELSE IF mode = LRT THEN
        LET dist == SumOver(legs, "distance_km")
            cost == calculate_lrt_fare(dist)
        IN  [legs EXCEPT ![Len(legs)].cost_idr = cost]
    ELSE IF mode = TJ THEN
        [legs EXCEPT ![1].cost_idr = calculate_tj_fare(1)]
    ELSE legs

\* every leg charged as a segment of its own
_calculate_segment_costs_per_leg(legs) ==
    Concat([k \in 1..Len(legs) |->
               _apply_cost_to_segment(<<legs[k]>>, legs[k].mode)])

\* the segments are the maximal runs of consecutive legs of equal mode
_calculate_segment_costs(legs) ==
    LET idx == [k \in 1..Len(legs) |-> k]
        starts_run(k) == k = 1 \/ legs[k].mode # legs[k - 1].mode
        starts == SelectSeq(idx, starts_run)
        end_of(n) == IF n = Len(starts) THEN Len(legs) ELSE starts[n + 1] - 1
        segment(n) == SubSeq(legs, starts[n], end_of(n))
    IN  Concat([n \in 1..Len(starts) |->
                   _apply_cost_to_segment(segment(n), legs[starts[n]].mode)])

\* leg["line"].split("-")[0].replace("Transfer ", "")
RECURSIVE RemoveAll(_, _)
RemoveAll(s, t) ==
    IF s = <<>> THEN <<>>
    ELSE IF StartsWith(s, t) THEN RemoveAll(SubSeq(s, Len(t) + 1, Len(s)), t)
    ELSE <<Head(s)>> \o RemoveAll(Tail(s), t)

FirstBefore(s, sep) ==
    IF \E i \in 1..Len(s) : s[i] = sep
    THEN SubSeq(s, 1, (CHOOSE i \in 1..Len(s) :
                          s[i] = sep /\ \A j \in 1..(i - 1) : s[j] # sep) - 1)
    ELSE s

\* transfers that report the mode of the leg on both sides
_count_transfers_leg_mode(legs) ==
    LET is_tr(leg) == leg.is_transfer
        tr == SelectSeq(legs, is_tr)
    IN  [k \in 1..Len(tr) |->
            [at |-> tr[k].from_name, from_mode |-> tr[k].mode, to_mode |-> tr[k].mode]]

_count_transfers(legs) ==
    LET is_tr(leg) == leg.is_transfer
        tr == SelectSeq(legs, is_tr)
    IN  [k \in 1..Len(tr) |->
            [at |-> tr[k].from_name,
             from_mode |-> IF Contains(tr[k].line, <<"T","r","a","n","s","f","e","r">>)
                           THEN RemoveAll(FirstBefore(tr[k].line, "-"), <<"T","r","a","n","s","f","e","r"," ">>)
                           ELSE <<>>,
             to_mode |-> tr[k].mode]]

\* round(total, 2) of a total in metres, in units of 0.01 km
RoundKm2(total_m) == RoundDiv(total_m, 10)

\* dict.get(id): the stop, or None
StopOrNone(stops_by_id, id) ==
    IF DictHas(stops_by_id, id) THEN DictGet(stops_by_id, id) ELSE NoStop

\* totals taken before the fares are applied to the legs
RouteSummaryBeforeFares(legs) ==
    [total_distance_km |-> RoundKm2(SumOver(legs, "distance_km")),
     total_time_minutes |-> SumOver(legs, "time_minutes"),
     total_cost_idr |-> 0]

\* step 3 of _build_route_response: the totals, summed over the legs
RouteSummary(legs) ==
    LET total_distance == SumOver(legs, "distance_km")
        total_time == SumOver(legs, "time_minutes")
        total_cost == SumOver(legs, "cost_idr")
    IN  [total_distance_km |-> RoundKm2(total_distance),
         total_time_minutes |-> total_time,
         total_cost_idr |-> total_cost]

\* the tag of the point with enumerate index i among n coordinates
PointType(i, n) == IF i = 0 THEN "start" ELSE IF i = n - 1 THEN "end" ELSE "stop"

\* Router._build_geojson(legs, geometry): the line of the route if there is
\* a coordinate, then a point for every coordinate; coordinates [long, lat]
_build_geojson(legs, geometry) ==
    LET line == IF geometry # <<>>
                THEN << [type |-> "Feature",
                         geometry |-> [type |-> "LineString",
                                       coordinates |-> [k \in 1..Len(geometry) |->
                                                           <<geometry[k][2], geometry[k][1]>>]],
                         properties |-> [type |-> "route"]] >>
                ELSE <<>>
        points == [k \in 1..Len(geometry) |->
                     [type |-> "Feature",
                      geometry |-> [type |-> "Point",
                                    coordinates |-> <<geometry[k][2], geometry[k][1]>>],
                      properties |-> [type |-> PointType(k - 1, Len(geometry)),
                                      index |-> k - 1]]]
    IN  [type |-> "FeatureCollection", features |-> line \o points]

\* steps 3 and 4 of _build_route_response: the response built from the
\* legs after the fares have been applied
RouteResponse(path, legs, stops_by_id) ==
    LET known(id) == DictHas(stops_by_id, id)
        coords == SelectSeq(path, known)
    IN  [summary |-> RouteSummary(legs),
         legs |-> legs,
         path |-> path,
         start_stop |-> IF path # <<>> THEN StopOrNone(stops_by_id, path[1]) ELSE NoStop,
         end_stop |-> IF path # <<>> THEN StopOrNone(stops_by_id, path[Len(path)]) ELSE NoStop,
         transfers |-> _count_transfers(legs),
         geometry |-> [k \in 1..Len(coords) |->
                          <<DictGet(stops_by_id, coords[k]).lat,
                            DictGet(stops_by_id, coords[k]).long>>],
         geojson |-> _build_geojson(legs,
                         [k \in 1..Len(coords) |->
                             <<DictGet(stops_by_id, coords[k]).lat,
                               DictGet(stops_by_id, coords[k]).long>>])]

\* step 1 of _build_route_response: the legs read from the edges of the path
BasicLeg(from_id, to_id, edge_data, stops_by_id) ==
    [from |-> from_id,
     from_name |-> StopName(stops_by_id, from_id),
     to |-> to_id,
     to_name |-> StopName(stops_by_id, to_id),
     mode |-> edge_data.mode,
     line |-> edge_data.line,
     distance_km |-> edge_data.distance_km,
     time_minutes |-> edge_data.time_minutes,
     cost_idr |-> 0,
     is_transfer |-> edge_data.is_transfer]

_build_route_response(path, g, stops_by_id) ==
    RouteResponse(path,
        _calculate_segment_costs(
            [i \in 1..(Len(path) - 1) |->
                BasicLeg(path[i], path[i + 1], EdgeData(g, path[i], path[i + 1]),
                         stops_by_id)]),
        stops_by_id)

\* the three error results of find_route
StartNotFound(start_id) ==
    [error |-> Concat(<< <<"S","t","a","r","t"," ","s","t","o","p"," ","'">>, start_id, <<"'"," ","n","o","t"," ","f","o","u","n","d">> >>)]

\* a not-found result that does not say which stop
EndNotFoundUnnamed(end_id) ==
    [error |-> <<"S","t","o","p"," ","n","o","t"," ","f","o","u","n","d">>]

EndNotFound(end_id) ==
    [error |-> Concat(<< <<"E","n","d"," ","s","t","o","p"," ","'">>, end_id, <<"'"," ","n","o","t"," ","f","o","u","n","d">> >>)]

\* a no-route result that leaves out the mode filter
NoRouteFoundWithoutMode(start_id, end_id, mode) ==
    [error |-> Concat(<< <<"N","o"," ","r","o","u","t","e"," ","f","o","u","n","d"," ","f","r","o","m"," ","'">>, start_id, <<"'"," ","t","o"," ","'">>, end_id, <<"'">> >>)]

NoRouteFound(start_id, end_id, mode) ==
    [error |-> Concat(<< <<"N","o"," ","r","o","u","t","e"," ","f","o","u","n","d"," ","f","r","o","m"," ","'">>, start_id, <<"'"," ","t","o"," ","'">>, end_id,
                         <<"'"," ","w","i","t","h"," ","m","o","d","e"," ","'">>, mode, <<"'">> >>)]

\* the graph find_route searches
SelectedGraph(g, mode) ==
    IF mode # NoMode /\ mode # ALL THEN get_filtered_graph(g, mode) ELSE g

find_route(g, stops_by_id, start_id, end_id, mode, weight) ==
    LET graph == SelectedGraph(g, mode)
    IN  IF ~HasNode(graph, start_id) THEN StartNotFound(start_id)
        ELSE IF ~HasNode(graph, end_id) THEN EndNotFound(end_id)
        ELSE LET found == dijkstra_path(graph, start_id, end_id, weight)
             IN  IF "path" \in DOMAIN found
                 THEN _build_route_response(found.path, graph, stops_by_id)
                 ELSE IF found.raised = "NetworkXNoPath"
                 THEN NoRouteFound(start_id, end_id, mode)
                 ELSE [exception |-> found.raised]

(***************************************************************************)
(* app/main.py: POST /api/route                                             *)
(***************************************************************************)
\* app.fares.haversine_distance, in decimetres; beyond the city scale the
\* distance is taken at kilometre resolution
CityScale == 250

haversine_distance(lat1, long1, lat2, long2) ==
    IF Abs(lat1 - lat2) <= CityScale /\ Abs(long1 - long2) <= CityScale
    THEN GroundDistance(lat1, long1, lat2, long2)
    ELSE LET dy == (Abs(lat1 - lat2) * DmPerUnit) \div 10000
             dx == (Abs(long1 - long2) * DmPerUnit) \div 10000
         IN  RoundSqrt(dy * dy + dx * dx) * 10000

\* app.destinations_seed.DESTINATIONS_SEED: slug, name and position
DESTINATIONS_SEED ==
    << [slug |-> <<"m","o","n","a","s">>, name |-> <<"M","o","n","u","m","e","n"," ","N","a","s","i","o","n","a","l">>,
        lat |-> BaseLat + 0, lon |-> BaseLong + 120],
       [slug |-> <<"g","b","k">>, name |-> <<"G","e","l","o","r","a"," ","B","u","n","g"," ","K","a","r","n","o">>,
        lat |-> BaseLat + 30, lon |-> BaseLong + 3] >>

\* rows of the mg:PlaceOfInterest query
AllPois ==
    << [id |-> <<"P","o","i","_","R","a","g","u","n","a","n">>, name |-> <<"K","e","b","u","n"," ","B","i","n","a","t","a","n","g"," ","R","a","g","u","n","a","n">>,
        lat |-> BaseLat - 200, long |-> BaseLong + 220, nearStop |-> <<"S","t","o","p","_","T","J","_","0","9">>],
       [id |-> <<"P","o","i","_","B","e","n","h","i","l">>, name |-> <<"P","a","s","a","r"," ","B","e","n","h","i","l">>,
        lat |-> BaseLat + 20, long |-> BaseLong + 62, nearStop |-> <<>>] >>

get_places_of_interest == AllPois

NoDest == [slug |-> <<>>]

get_destination_by_slug(slug) ==
    IF \E k \in 1..Len(DESTINATIONS_SEED) : DESTINATIONS_SEED[k].slug = slug
    THEN DESTINATIONS_SEED[CHOOSE k \in 1..Len(DESTINATIONS_SEED) :
             /\ DESTINATIONS_SEED[k].slug = slug
             /\ \A j \in 1..(k - 1) : DESTINATIONS_SEED[j].slug # slug]
    ELSE NoDest

HTTPException(status_code, detail) == [http_error |-> status_code, detail |-> detail]

WALKING_SPEED_KMH == 4
\* 0.03 km in decimetres
WalkThresholdDm == 300

\* (distance / WALKING_SPEED_KMH) * 60, in 1/2000 minute
WalkTime(walk_dm) == (walk_dm * 12) \div WALKING_SPEED_KMH

\* names in order of first occurrence, empty names dropped
AppendNew(passed, names) ==
    LET nonempty(s) == s # <<>>
        SameName(a, b) == a = b
    IN  LastWins(passed \o SelectSeq(names, nonempty), SameName)

\* "Determine start stop": [start_id |-> ...] or an HTTPException
ResolveStart(stops_by_id, start, mode) ==
    IF start.type = "coord"
    THEN IF ~start.value.ok
         THEN HTTPException(400, <<"I","n","v","a","l","i","d"," ","c","o","o","r","d","i","n","a","t","e","s"," ","f","o","r","m","a","t","."," ","U","s","e"," ","'","l","a","t",",","l","o","n","g","'">>)
         ELSE LET mode_filter == IF mode # ALL THEN mode ELSE NoMode
                  nearest == find_nearest_stop(stops_by_id, start.value.lat,
                                               start.value.long, mode_filter)
              IN  IF nearest = NoStop
                  THEN HTTPException(404, <<"N","o"," ","s","t","o","p"," ","f","o","u","n","d"," ","n","e","a","r"," ","c","o","o","r","d","i","n","a","t","e","s">>)
                  ELSE [start_id |-> nearest.id]
    ELSE [start_id |-> start.value]

\* "Convert destination slugs to end stop IDs": destination_info, whose
\* nearest_stop entries are destination_stops
ResolveDestinations(stops_by_id, selected_places) ==
    LET info(place_id) ==
            LET dest == get_destination_by_slug(place_id)
                pois == get_places_of_interest
                is_poi(p) == p.id = place_id
                hits == SelectSeq(pois, is_poi)
            IN  IF dest # NoDest
                THEN LET nearest == find_nearest_stop(stops_by_id, dest.lat, dest.lon, NoMode)
                     IN  IF nearest # NoStop
                         THEN << [name |-> dest.name, slug |-> dest.slug,
                                  nearest_stop |-> nearest.id,
                                  nearest_stop_name |-> nearest.name,
                                  lat |-> dest.lat, lon |-> dest.lon] >>
                         ELSE <<>>
                ELSE IF hits # <<>>
                THEN LET poi == hits[1]
                         nearest == find_nearest_stop(stops_by_id, poi.lat, poi.long, NoMode)
                     IN  IF nearest # NoStop
                         THEN << [name |-> poi.name, slug |-> place_id,
                                  nearest_stop |-> nearest.id,
                                  nearest_stop_name |-> nearest.name,
                                  lat |-> poi.lat, lon |-> poi.long] >>
                         ELSE <<>>
                ELSE <<>>
    IN  Concat([k \in 1..Len(selected_places) |-> info(selected_places[k])])

\* the walking leg from a stop to a destination; distance in decimetres
WalkingLeg(stop_id, stop_name, dest, walk_dm) ==
    [mode |-> WALK, from |-> stop_id, from_name |-> stop_name,
     to |-> dest.slug, to_name |-> dest.name,
     distance_km |-> RoundDiv(walk_dm, 100) * 10,
     time_minutes |-> RoundDiv(WalkTime(walk_dm), 200) * 10,
     cost_idr |-> 0, is_walk |-> TRUE, line |-> <<"J","a","l","a","n"," ","K","a","k","i">>]

\* lat/long of stops_by_id.get(id, {}) with default 0
StopLat(stops_by_id, id) == IF DictHas(stops_by_id, id) THEN DictGet(stops_by_id, id).lat ELSE 0
StopLong(stops_by_id, id) == IF DictHas(stops_by_id, id) THEN DictGet(stops_by_id, id).long ELSE 0

\* a walking leg appended whatever the distance
AddWalkAlways(stops_by_id, acc, last, dest, walk_dm, case1) ==
    [acc EXCEPT
        !.legs = Append(@, WalkingLeg(last, StopName(stops_by_id, last), dest, walk_dm)),
        !.dist = @ + walk_dm,
        !.time = @ + WalkTime(walk_dm)]

\* Case 1 and Case 3: the walking leg from stop `last` to the destination,
\* appended when the walk is longer than 30 m.  Case 1 also records the
\* stop in stops_passed and its position in the geometry.
AddWalk(stops_by_id, acc, last, dest, walk_dm, case1) ==
    LET name == StopName(stops_by_id, last)
        has_name == DictHas(stops_by_id, last) /\ name # <<>>
        lat == StopLat(stops_by_id, last)
        long == StopLong(stops_by_id, last)
    IN  IF walk_dm > WalkThresholdDm
        THEN [acc EXCEPT
                !.legs = Append(@, WalkingLeg(last, name, dest, walk_dm)),
                !.stops_passed = IF case1 /\ has_name THEN AppendNew(@, <<name>>) ELSE @,
                !.dist = @ + walk_dm,
                !.time = @ + WalkTime(walk_dm),
                !.geometry = (IF case1 /\ lat # 0 /\ long # 0
                              THEN Append(@, <<lat, long>>)
                              ELSE @) \o << <<dest.lat, dest.lon>> >>]
        ELSE acc

\* the walk from stop `last` to the destination, in decimetres
WalkDistance(stops_by_id, last, dest) ==
    haversine_distance(StopLat(stops_by_id, last), StopLong(stops_by_id, last),
                       dest.lat, dest.lon)

\* Case 2: the result of find_route added to the itinerary when it is no
\* error; current_stop moves only then
AddTransit(acc, res, dest) ==
    IF "error" \in DOMAIN res THEN acc
    ELSE [acc EXCEPT
            !.geometry = @ \o res.geometry,
            !.legs = @ \o [k \in 1..Len(res.legs) |->
                             [from |-> res.legs[k].from,
                              from_name |-> res.legs[k].from_name,
                              to |-> res.legs[k].to,
                              to_name |-> res.legs[k].to_name,
                              mode |-> res.legs[k].mode,
                              line |-> res.legs[k].line,
                              distance_km |-> res.legs[k].distance_km,
                              time_minutes |-> res.legs[k].time_minutes,
                              cost_idr |-> res.legs[k].cost_idr,
                              is_transfer |-> res.legs[k].is_transfer,
                              destination |-> dest.name]],
            !.stops_passed = AppendNew(@, Concat([k \in 1..Len(res.legs) |->
                                 <<res.legs[k].from_name, res.legs[k].to_name>>])),
            !.dist = @ + res.summary.total_distance_km * 100,
            !.time = @ + res.summary.total_time_minutes * 20,
            !.cost = @ + res.summary.total_cost_idr,
            !.transfers = @ \o res.transfers,
            !.current_stop = dest.nearest_stop]

\* Case 3 after Case 2: the walk starts at the itinerary's current stop
WalkFromCurrent(stops_by_id, acc, dest) ==
    AddWalk(stops_by_id, acc, acc.current_stop, dest,
            WalkDistance(stops_by_id, acc.current_stop, dest), FALSE)

\* One iteration of the loop over destination_stops.  The running totals
\* are kept unrounded: dist in decimetres, time in 1/2000 minute.
RouteToDestination(g, stops_by_id, acc, dest, mode) ==
    IF acc.current_stop = dest.nearest_stop
    THEN AddWalk(stops_by_id, acc, acc.current_stop, dest,
                 WalkDistance(stops_by_id, acc.current_stop, dest), TRUE)
    ELSE WalkFromCurrent(stops_by_id,
             AddTransit(acc, find_route(g, stops_by_id, acc.current_stop,
                                        dest.nearest_stop, mode, "time_minutes"), dest),
             dest)

\* "Build response": the totals come from the running totals
ApiSummary(acc) ==
    [total_distance_km |-> RoundDiv(acc.dist, 100) * 10,
     total_time_minutes |-> RoundDiv(acc.time, 200) * 10,
     total_cost_idr |-> acc.cost,
     stops_count |-> Len(acc.stops_passed),
     transfers_count |-> Len(acc.transfers)]

ApiResponse(start_id, destination_info, final) ==
    [summary |-> ApiSummary(final),
     legs |-> final.legs,
     stops_passed |-> final.stops_passed,
     transfers |-> final.transfers,
     destinations |-> destination_info,
     start_stop |-> start_id,
     end_stop |-> final.current_stop,
     geometry |-> final.geometry]

\* the running itinerary before the loop over the destinations
NewItinerary(start_id) ==
    [legs |-> <<>>, stops_passed |-> <<>>, dist |-> 0, time |-> 0,
     cost |-> 0, geometry |-> <<>>, transfers |-> <<>>,
     current_stop |-> start_id]

\* find_route_api up to the loop, once the start has been resolved: the
\* HTTPException raised, or start_id and destination_info
PlanFromStart(stops_by_id, start, destination_info, request) ==
    IF "http_error" \in DOMAIN start THEN start
    ELSE IF request.selected_places = <<>>
    THEN HTTPException(400, <<"N","o"," ","d","e","s","t","i","n","a","t","i","o","n","s"," ","s","e","l","e","c","t","e","d">>)
    ELSE IF destination_info = <<>>
    THEN HTTPException(404, <<"N","o"," ","v","a","l","i","d"," ","d","e","s","t","i","n","a","t","i","o","n","s"," ","f","o","u","n","d">>)
    ELSE [start_id |-> start.start_id, destination_info |-> destination_info]

RequestPlan(stops_by_id, request) ==
    PlanFromStart(stops_by_id,
                  ResolveStart(stops_by_id, request.start, request.mode),
                  ResolveDestinations(stops_by_id, request.selected_places),
                  request)

(***************************************************************************)
(* mobilitygraph/router.py: routes to places of interest                    *)
(***************************************************************************)
\* self.graph after get_filtered_graph(mode): copy() and subgraph(...).copy()
\* build a graph object of their own and remove_edges_from is called on
\* that object; a filter that worked on self.graph itself would leave the
\* subgraph in its place
GraphAfterFilterInPlace(g, mode) == get_filtered_graph(g, mode)

GraphAfterFilter(g, mode) == g

\* self.graph after find_route: the filtered graph is asked for only under
\* a mode filter; node tests, dijkstra_path and graph.edges[u, v] read
GraphAfterFindRoute(g, mode) ==
    IF mode # NoMode /\ mode # ALL THEN GraphAfterFilter(g, mode) ELSE g

\* p for p in pois if p["id"] == poi_id
PoisWithId(poi_id) ==
    LET is_poi(p) == p.id = poi_id
    IN  SelectSeq(get_places_of_interest, is_poi)

\* find_route_to_poi up to the call of find_route: the end stop, or the
\* error returned
PoiEndStop(stops_by_id, poi_id, mode) ==
    IF PoisWithId(poi_id) = <<>>
    THEN [error |-> Concat(<< <<"P","O","I"," ","'">>, poi_id, <<"'"," ","n","o","t"," ","f","o","u","n","d">> >>)]
    ELSE IF PoisWithId(poi_id)[1].nearStop # <<>>
    THEN [end_id |-> PoisWithId(poi_id)[1].nearStop]
    ELSE LET poi == PoisWithId(poi_id)[1]
             nearest == find_nearest_stop(stops_by_id, poi.lat, poi.long,
                                          IF mode # ALL THEN mode ELSE NoMode)
         IN  IF nearest = NoStop
             THEN [error |-> Concat(<< <<"N","o"," ","s","t","o","p"," ","f","o","u","n","d"," ","n","e","a","r"," ","P","O","I"," ","'">>, poi_id, <<"'">> >>)]
             ELSE [end_id |-> nearest.id]

\* route["destination_poi"] = poi on a route that is no error
WithDestinationPoi(route, poi) ==
    IF "error" \in DOMAIN route \/ "exception" \in DOMAIN route THEN route
    ELSE [summary |-> route.summary, legs |-> route.legs, path |-> route.path,
          start_stop |-> route.start_stop, end_stop |-> route.end_stop,
          transfers |-> route.transfers, geometry |-> route.geometry,
          geojson |-> route.geojson,
          destination_poi |-> poi]

\* find_route_to_poi from the end stop on: route is what
\* find_route(start_id, end_id, mode) returns
find_route_to_poi(route, poi_id, end) ==
    IF "error" \in DOMAIN end THEN end
    ELSE WithDestinationPoi(route, PoisWithId(poi_id)[1])

\* the stop of a place of interest: its nearStop, or the nearest stop of
\* any mode, or None
PoiStop(stops_by_id, poi) ==
    IF poi.nearStop # <<>> THEN poi.nearStop
    ELSE find_nearest_stop(stops_by_id, poi.lat, poi.long, NoMode).id

\* "Order POIs by nearest neighbor heuristic": the loop ends when nothing
\* remains or when current_stop is no loaded stop
RECURSIVE OrderPois(_, _, _, _)
OrderPois(stops_by_id, current_stop, remaining, ordered) ==
    IF remaining = <<>> \/ ~DictHas(stops_by_id, current_stop) THEN ordered
    ELSE LET current_data == DictGet(stops_by_id, current_stop)
             dist(k) == geodesic(current_data.lat, current_data.long,
                                 remaining[k].lat, remaining[k].long)
             n == CHOOSE k \in 1..Len(remaining) :
                     /\ \A j \in 1..Len(remaining) : dist(k) <= dist(j)
                     /\ \A j \in 1..(k - 1) : dist(j) > dist(k)
             first == CHOOSE k \in 1..Len(remaining) :
                         /\ remaining[k] = remaining[n]
                         /\ \A j \in 1..(k - 1) : remaining[j] # remaining[n]
             next_stop == IF PoiStop(stops_by_id, remaining[n]) # <<>>
                          THEN PoiStop(stops_by_id, remaining[n])
                          ELSE current_stop
         IN  OrderPois(stops_by_id, next_stop,
                       SubSeq(remaining, 1, first - 1)
                           \o SubSeq(remaining, first + 1, Len(remaining)),
                       Append(ordered, remaining[n]))

\* find_multi_stop_route up to the loop over ordered_pois: the error
\* returned, or the ordered places
MultiStopPlan(stops_by_id, start_id, poi_ids) ==
    LET selected(p) == \E k \in 1..Len(poi_ids) : poi_ids[k] = p.id
        selected_pois == SelectSeq(get_places_of_interest, selected)
    IN  IF poi_ids = <<>> THEN [error |-> <<"N","o"," ","P","O","I","s"," ","s","e","l","e","c","t","e","d">>]
        ELSE IF selected_pois = <<>> THEN [error |-> <<"N","o"," ","v","a","l","i","d"," ","P","O","I","s"," ","f","o","u","n","d">>]
        ELSE [ordered_pois |-> OrderPois(stops_by_id, start_id, selected_pois, <<>>)]

\* the running totals of find_multi_stop_route before the loop
NewTour(start_id) ==
    [legs |-> <<>>, total_distance |-> 0, total_time |-> 0, total_cost |-> 0,
     current |-> start_id]

\* a segment that is no error added to the tour: its legs with the name of
\* the place, its summary, and current moved to the end stop
AddSegment(acc, segment, poi, end) ==
    IF "error" \in DOMAIN segment \/ "exception" \in DOMAIN segment THEN acc
    ELSE [legs |-> acc.legs \o [k \in 1..Len(segment.legs) |->
                      [from |-> segment.legs[k].from,
                       from_name |-> segment.legs[k].from_name,
                       to |-> segment.legs[k].to,
                       to_name |-> segment.legs[k].to_name,
                       mode |-> segment.legs[k].mode,
                       line |-> segment.legs[k].line,
                       distance_km |-> segment.legs[k].distance_km,
                       time_minutes |-> segment.legs[k].time_minutes,
                       cost_idr |-> segment.legs[k].cost_idr,
                       is_transfer |-> segment.legs[k].is_transfer,
                       destination_poi |-> poi.name]],
          total_distance |-> acc.total_distance + segment.summary.total_distance_km,
          total_time |-> acc.total_time + segment.summary.total_time_minutes,
          total_cost |-> acc.total_cost + segment.summary.total_cost_idr,
          current |-> end]

\* "if end and end != current": the iteration calls find_route
CallsFindRoute(acc, end) == end # <<>> /\ end # acc.current

\* one iteration of the loop over ordered_pois, segment being what
\* find_route(current, end, mode) returns
SegmentToPoi(acc, segment, poi, end) ==
    IF CallsFindRoute(acc, end) THEN AddSegment(acc, segment, poi, end) ELSE acc

\* the response of find_multi_stop_route; totals in 0.01 km and 0.01 minute
MultiStopResponse(stops_by_id, start_id, ordered_pois, acc) ==
    [summary |-> [total_distance_km |-> acc.total_distance,
                  total_time_minutes |-> acc.total_time,
                  total_cost_idr |-> acc.total_cost],
     legs |-> acc.legs,
     visited_pois |-> [k \in 1..Len(ordered_pois) |-> ordered_pois[k].name],
     start_stop |-> StopOrNone(stops_by_id, start_id),
     end_stop |-> StopOrNone(stops_by_id, acc.current),
     transfers |-> _count_transfers(acc.legs)]

(***************************************************************************)
(* The application: startup (lifespan) and the calls served afterwards      *)
(***************************************************************************)
VARIABLES
    rows,         \* the stop rows the loader holds
    stops_by_id,  \* GraphBuilder.stops_by_id
    graph,        \* GraphBuilder.graph, shared with the Router
    phase,        \* "loaded": before build_graph; "ready"; "routing": find_route_api
                  \* is in its loop over the destinations; "returned": a call has returned
    call,         \* the call being served
    itinerary,    \* find_route_api: the plan, the running itinerary, the next destination
    result,       \* what the call returned
    build,        \* build_graph: the step a call in progress has reached, the
                  \* number of calls, and what the calls that finished returned
    custom_ttl    \* the triples of dataTTL/custom_routes.ttl

vars == <<rows, stops_by_id, graph, phase, call, itinerary, result, build, custom_ttl>>

NoCall == [op |-> "none"]
NoResult == [none |-> TRUE]
NoItinerary == [none |-> TRUE]
NoGraph == [none |-> TRUE]

\* before the first call of build_graph
NoBuild == [stage |-> "idle", count |-> 0, returned |-> NoGraph, stops |-> <<>>,
            earlier |-> NoGraph]

\* build_graph has returned: the graph and the stops it returned are kept,
\* and the graph the call before it returned, as it was then
BuildReturned(b, g, stops) ==
    [stage |-> "idle", count |-> b.count + 1, returned |-> g, stops |-> stops,
     earlier |-> b.returned]

\* schemas.TransportMode
Modes == {MRT, LRT, TJ, ALL}
Weights == {"time_minutes", "distance_km", "cost_idr"}
\* the modes of the loaded stops
SingleModes == {MRT, LRT, TJ}

\* find_route takes any string for mode and weight
RouterModes == Modes \cup { <<"B","U","S">> }
RouterWeights == Weights \cup {"hops"}
UnknownStop == <<"S","t","o","p","_","X","X","_","0","0">>
StopIds == {LocalId(AllStopRows[k].uri) : k \in 1..Len(AllStopRows)} \cup {UnknownStop}

\* the most destinations of one request
MaxPlaces == 2

\* two seeded destinations, a place of interest and an unknown place
PlaceIds == { <<"m","o","n","a","s">>, <<"g","b","k">>, <<"P","o","i","_","R","a","g","u","n","a","n">>, <<"n","o","w","h","e","r","e">> }
PlaceLists == UNION {[1..n -> PlaceIds] : n \in 0..MaxPlaces}

\* a start is a stop id, or a "lat,long" text that parses or does not
Starts ==
    {[type |-> "stop_id", value |-> id] : id \in StopIds} \cup
    {[type |-> "coord", value |-> [ok |-> TRUE, lat |-> BaseLat + 1, long |-> BaseLong + 58]],
     [type |-> "coord", value |-> [ok |-> FALSE, lat |-> 0, long |-> 0]]}

NumRows == IF MaxStops < Len(AllStopRows) THEN MaxStops ELSE Len(AllStopRows)

NumCorridorRows == IF MaxStops < Len(CorridorStopRows) THEN MaxStops ELSE Len(CorridorStopRows)

Init ==
    /\ \/ \E n \in 0..NumRows : rows = SubSeq(AllStopRows, 1, n)
       \/ rows = SubSeq(CorridorStopRows, 1, NumCorridorRows)
    /\ stops_by_id = <<>>
    /\ graph = EmptyGraph
    /\ phase = "loaded"
    /\ call = NoCall
    /\ itinerary = NoItinerary
    /\ result = NoResult
    /\ build = NoBuild
    /\ custom_ttl = {}

\* lifespan: GraphBuilder(loader).build_graph(), then Router(graph_builder)
Lifespan ==
    /\ phase = "loaded"
    /\ LET built == build_graph(graph, rows)
       IN  /\ stops_by_id' = built.stops_by_id
           /\ graph' = built.graph
           /\ build' = BuildReturned(build, built.graph, built.stops_by_id)
    /\ phase' = "ready"
    /\ UNCHANGED <<custom_ttl, rows, call, itinerary, result>>

\* Router.find_route(start_id, end_id, mode, weight)
FindRoute ==
    /\ phase = "ready"
    /\ \E start_id \in StopIds, end_id \in StopIds, mode \in RouterModes,
          weight \in RouterWeights :
          /\ call' = [op |-> "find_route", start_id |-> start_id, end_id |-> end_id,
                      mode |-> mode, weight |-> weight]
          /\ result' = find_route(graph, stops_by_id, start_id, end_id, mode, weight)
          /\ graph' = GraphAfterFindRoute(graph, mode)
    /\ phase' = "returned"
    /\ UNCHANGED <<custom_ttl, rows, stops_by_id, itinerary, build>>

\* the caller takes the result; the router is ready for the next call
Return ==
    /\ phase = "returned"
    /\ phase' = "ready"
    /\ call' = NoCall
    /\ result' = NoResult
    /\ UNCHANGED <<custom_ttl, rows, stops_by_id, graph, itinerary, build>>

\* POST /api/route, up to the loop over the destinations: the request is
\* refused with an HTTPException, or the loop starts
FindRouteApi ==
    /\ phase = "ready"
    /\ \E start \in Starts, selected_places \in PlaceLists, mode \in Modes :
          LET request == [start |-> start, selected_places |-> selected_places,
                          mode |-> mode]
              plan == RequestPlan(stops_by_id, request)
          IN  /\ call' = [op |-> "find_route_api", start |-> start,
                          selected_places |-> selected_places, mode |-> mode]
              /\ IF "http_error" \in DOMAIN plan
                 THEN /\ result' = plan
                      /\ itinerary' = NoItinerary
                      /\ phase' = "returned"
                 ELSE /\ result' = NoResult
                      /\ itinerary' = [start_id |-> plan.start_id,
                                       destination_info |-> plan.destination_info,
                                       next |-> 1,
                                       totals |-> NewItinerary(plan.start_id)]
                      /\ phase' = "routing"
    /\ UNCHANGED <<custom_ttl, rows, stops_by_id, graph, build>>

\* one iteration of the loop of find_route_api
RouteNextDestination ==
    /\ phase = "routing"
    /\ itinerary.next <= Len(itinerary.destination_info)
    /\ itinerary' = [itinerary EXCEPT
                       !.totals = RouteToDestination(graph, stops_by_id, @,
                                      itinerary.destination_info[itinerary.next],
                                      call.mode),
                       !.next = @ + 1]
    /\ graph' = IF itinerary.totals.current_stop =
                     itinerary.destination_info[itinerary.next].nearest_stop
                THEN graph
                ELSE GraphAfterFindRoute(graph, call.mode)
    /\ UNCHANGED <<custom_ttl, rows, stops_by_id, phase, call, result, build>>

\* the loop is over: find_route_api builds and returns the response
RespondItinerary ==
    /\ phase = "routing"
    /\ itinerary.next > Len(itinerary.destination_info)
    /\ result' = ApiResponse(itinerary.start_id, itinerary.destination_info,
                             itinerary.totals)
    /\ itinerary' = NoItinerary
    /\ phase' = "returned"
    /\ UNCHANGED <<custom_ttl, rows, stops_by_id, graph, call, build>>

Next ==
    \/ Lifespan
    \/ FindRoute
    \/ FindRouteApi
    \/ RouteNextDestination
    \/ RespondItinerary
    \/ Return

Spec == Init /\ [][Next]_vars

(***************************************************************************)
(* The fare functions of app/fares.py called on their own                   *)
(***************************************************************************)
FareNames ==
    {MRT_STATIONS[k] : k \in 1..Len(MRT_STATIONS)} \cup
    { <<"S","t","a","s","i","u","n"," ","M","R","T"," ","B","u","n","d","a","r","a","n"," ","H","I">>, <<"B","u","n","d","a","r","a","n"," ","H","I"," ","B","a","n","k"," ","D","K","I">>, <<"H","a","l","t","e"," ","P","o","l","d","a">> }

\* metres
FareDistances == {0, 999, 1000, 1001, 2000, 2001, 12345}

FareHops == {1, 2, 7}

InitFare ==
    /\ rows = <<>>
    /\ stops_by_id = <<>>
    /\ graph = EmptyGraph
    /\ phase = "ready"
    /\ call = NoCall
    /\ itinerary = NoItinerary
    /\ result = NoResult
    /\ build = NoBuild
    /\ custom_ttl = {}

CalculateMrtFare ==
    /\ \E from_station \in FareNames, to_station \in FareNames :
          /\ call' = [op |-> "calculate_mrt_fare", from_station |-> from_station,
                      to_station |-> to_station]
          /\ result' = [fare |-> calculate_mrt_fare(from_station, to_station)]
    /\ UNCHANGED <<custom_ttl, rows, stops_by_id, graph, phase, itinerary, build>>

CalculateLrtFare ==
    /\ \E distance_m \in FareDistances :
          /\ call' = [op |-> "calculate_lrt_fare", distance_m |-> distance_m]
          /\ result' = [fare |-> calculate_lrt_fare(distance_m)]
    /\ UNCHANGED <<custom_ttl, rows, stops_by_id, graph, phase, itinerary, build>>

CalculateTjFare ==
    /\ \E hops \in FareHops :
          /\ call' = [op |-> "calculate_tj_fare", hops |-> hops]
          /\ result' = [fare |-> calculate_tj_fare(hops)]
    /\ UNCHANGED <<custom_ttl, rows, stops_by_id, graph, phase, itinerary, build>>

NextFare == CalculateMrtFare \/ CalculateLrtFare \/ CalculateTjFare

SpecFare == InitFare /\ [][NextFare]_vars


(***************************************************************************)
(* The Router and the GraphBuilder called directly, in any order            *)
(***************************************************************************)
UnknownPoi == <<"P","o","i","_","X","X">>
PoiIds == {AllPois[k].id : k \in 1..Len(AllPois)} \cup {UnknownPoi}

\* poi_ids is used for membership tests only: one list for each set of ids
PoiIdLists ==
    { <<>>, << <<"P","o","i","_","R","a","g","u","n","a","n">> >>, << <<"P","o","i","_","B","e","n","h","i","l">> >>, << UnknownPoi >>,
      << <<"P","o","i","_","R","a","g","u","n","a","n">>, <<"P","o","i","_","B","e","n","h","i","l">> >>, << <<"P","o","i","_","B","e","n","h","i","l">>, UnknownPoi >> }

\* the coordinates find_nearest_stop is asked about
Coordinates == { <<BaseLat + 1, BaseLong + 58>>, <<BaseLat - 200, BaseLong + 220>> }

\* find_route_to_poi once the end stop is resolved or refused
RouteToPoi(start_id, poi_id, mode, end) ==
    /\ result' = find_route_to_poi(
                     find_route(graph, stops_by_id, start_id,
                                IF "error" \in DOMAIN end THEN <<>> ELSE end.end_id,
                                mode, "time_minutes"),
                     poi_id, end)
    /\ graph' = IF "error" \in DOMAIN end THEN graph
                ELSE GraphAfterFindRoute(graph, mode)

\* Router.find_route_to_poi(start_id, poi_id, mode)
FindRouteToPoi ==
    /\ phase = "ready"
    /\ \E start_id \in StopIds, poi_id \in PoiIds, mode \in Modes :
          /\ call' = [op |-> "find_route_to_poi", start_id |-> start_id,
                      poi_id |-> poi_id, mode |-> mode]
          /\ RouteToPoi(start_id, poi_id, mode, PoiEndStop(stops_by_id, poi_id, mode))
    /\ phase' = "returned"
    /\ UNCHANGED <<custom_ttl, rows, stops_by_id, itinerary, build>>

\* Router.find_multi_stop_route(start_id, poi_ids, mode), up to the loop
\* over the ordered places
FindMultiStopRoute ==
    /\ phase = "ready"
    /\ \E start_id \in StopIds, poi_ids \in PoiIdLists, mode \in Modes :
          LET plan == MultiStopPlan(stops_by_id, start_id, poi_ids)
          IN  /\ call' = [op |-> "find_multi_stop_route", start_id |-> start_id,
                          poi_ids |-> poi_ids, mode |-> mode]
              /\ IF "error" \in DOMAIN plan
                 THEN /\ result' = plan
                      /\ itinerary' = NoItinerary
                      /\ phase' = "returned"
                 ELSE /\ result' = NoResult
                      /\ itinerary' = [ordered_pois |-> plan.ordered_pois, next |-> 1,
                                       totals |-> NewTour(start_id)]
                      /\ phase' = "touring"
    /\ UNCHANGED <<custom_ttl, rows, stops_by_id, graph, build>>

\* one iteration of the loop of find_multi_stop_route for a place whose
\* stop is end
RouteToNextPoi(poi, end) ==
    /\ itinerary' = [itinerary EXCEPT
                       !.totals = SegmentToPoi(@,
                                      find_route(graph, stops_by_id, @.current, end,
                                                 call.mode, "time_minutes"),
                                      poi, end),
                       !.next = @ + 1]
    /\ graph' = IF CallsFindRoute(itinerary.totals, end)
                THEN GraphAfterFindRoute(graph, call.mode)
                ELSE graph

MultiStopNextPoi ==
    /\ phase = "touring"
    /\ itinerary.next <= Len(itinerary.ordered_pois)
    /\ RouteToNextPoi(itinerary.ordered_pois[itinerary.next],
                      PoiStop(stops_by_id, itinerary.ordered_pois[itinerary.next]))
    /\ UNCHANGED <<custom_ttl, rows, stops_by_id, phase, call, result, build>>

\* the loop is over: find_multi_stop_route returns its response
RespondMultiStop ==
    /\ phase = "touring"
    /\ itinerary.next > Len(itinerary.ordered_pois)
    /\ result' = MultiStopResponse(stops_by_id, call.start_id, itinerary.ordered_pois,
                                   itinerary.totals)
    /\ itinerary' = NoItinerary
    /\ phase' = "returned"
    /\ UNCHANGED <<custom_ttl, rows, stops_by_id, graph, call, build>>

\* GraphBuilder.get_filtered_graph(mode)
GetFilteredGraph ==
    /\ phase = "ready"
    /\ \E mode \in RouterModes \cup {NoMode} :
          /\ call' = [op |-> "get_filtered_graph", mode |-> mode]
          /\ result' = [graph |-> get_filtered_graph(graph, mode)]
          /\ graph' = GraphAfterFilter(graph, mode)
    /\ phase' = "returned"
    /\ UNCHANGED <<custom_ttl, rows, stops_by_id, itinerary, build>>

\* GraphBuilder.find_nearest_stop(lat, long, mode)
FindNearestStop ==
    /\ phase = "ready"
    /\ \E at \in Coordinates, mode \in SingleModes \cup {NoMode} :
          /\ call' = [op |-> "find_nearest_stop", lat |-> at[1], long |-> at[2],
                      mode |-> mode]
          /\ result' = [nearest |-> find_nearest_stop(stops_by_id, at[1], at[2], mode)]
    /\ phase' = "returned"
    /\ UNCHANGED <<custom_ttl, rows, stops_by_id, graph, itinerary, build>>

NextRouter ==
    \/ Lifespan
    \/ FindRoute
    \/ FindRouteToPoi
    \/ FindMultiStopRoute
    \/ MultiStopNextPoi
    \/ RespondMultiStop
    \/ GetFilteredGraph
    \/ FindNearestStop
    \/ Return

SpecRouter == Init /\ [][NextRouter]_vars

(***************************************************************************)
(* build_graph called again on the GraphBuilder while the Router serves     *)
(***************************************************************************)
\* the most calls of build_graph on one GraphBuilder
MaxBuilds == 2

\* the data source has gained a stop and loader.load_all_ttl() reads it
Reload ==
    /\ phase # "loaded"
    /\ build.stage = "idle"
    /\ build.count < MaxBuilds
    /\ Len(rows) < NumRows
    /\ rows = SubSeq(AllStopRows, 1, Len(rows))
    /\ stops_by_id = build.stops
    /\ Len(stops_by_id) = Len(rows)
    /\ rows' = SubSeq(AllStopRows, 1, Len(rows) + 1)
    /\ UNCHANGED <<custom_ttl, stops_by_id, graph, phase, call, itinerary, result, build>>

\* build_graph, "Load all stops" and "Add all stops as nodes": stops_by_id
\* is a new dict, the nodes are added to self.graph.  The first call is
\* the one of lifespan.
BuildGraphNodes ==
    /\ build.stage = "idle"
    /\ build.count < MaxBuilds
    /\ stops_by_id' = DictFromList(get_stops(rows, NoMode))
    /\ graph' = add_nodes(graph, StopNodes(get_stops(rows, NoMode)))
    /\ build' = [build EXCEPT !.stage = "nodes"]
    /\ UNCHANGED <<custom_ttl, rows, phase, call, itinerary, result>>

\* build_graph, "Build edges from routes"
BuildGraphRouteEdges ==
    /\ build.stage = "nodes"
    /\ graph' = _build_route_edges(graph, stops_by_id)
    /\ build' = [build EXCEPT !.stage = "routes"]
    /\ UNCHANGED <<custom_ttl, rows, stops_by_id, phase, call, itinerary, result>>

\* build_graph, "Build edges for TransJakarta"
BuildGraphTjEdges ==
    /\ build.stage = "routes"
    /\ graph' = _build_tj_edges(graph, stops_by_id)
    /\ build' = [build EXCEPT !.stage = "tj"]
    /\ UNCHANGED <<custom_ttl, rows, stops_by_id, phase, call, itinerary, result>>

\* build_graph, "Build transfer edges between modes" and return self.graph;
\* lifespan goes on to construct the Router and the application serves
BuildGraphTransferEdges ==
    /\ build.stage = "tj"
    /\ graph' = _build_transfer_edges(graph, stops_by_id)
    /\ build' = BuildReturned(build, graph', stops_by_id)
    /\ phase' = IF phase = "loaded" THEN "ready" ELSE phase
    /\ UNCHANGED <<custom_ttl, rows, stops_by_id, call, itinerary, result>>

\* Router.find_route(start_id, end_id) with its default mode and weight,
\* whatever build_graph is doing
FindRouteDefault ==
    /\ phase = "ready"
    /\ \E start_id \in StopIds, end_id \in StopIds :
          /\ call' = [op |-> "find_route", start_id |-> start_id, end_id |-> end_id,
                      mode |-> ALL, weight |-> "time_minutes", during |-> build.stage]
          /\ result' = find_route(graph, stops_by_id, start_id, end_id, ALL,
                                  "time_minutes")
          /\ graph' = GraphAfterFindRoute(graph, ALL)
    /\ phase' = "returned"
    /\ UNCHANGED <<custom_ttl, rows, stops_by_id, itinerary, build>>

NextRebuild ==
    \/ Reload
    \/ BuildGraphNodes
    \/ BuildGraphRouteEdges
    \/ BuildGraphTjEdges
    \/ BuildGraphTransferEdges
    \/ FindRouteDefault
    \/ Return

SpecRebuild == Init /\ [][NextRebuild]_vars

(***************************************************************************)
(* MobilityGraphLoader.get_stops called on its own                          *)
(***************************************************************************)
\* rows of the tr:StopPoint query over a data source with an interchange
\* station whose id names both rail systems
InterchangeStopRows ==
    << StopRow(<<"h","t","t","p",":","/","/","m","g",".","i","d","/","m","#","S","t","o","p","_","M","R","T","_","0","1">>, <<"S","t","a","s","i","u","n"," ","M","R","T"," ","I","s","t","o","r","a"," ","M","a","n","d","i","r","i">>, 0, 0),
       StopRow(<<"h","t","t","p",":","/","/","m","g",".","i","d","/","m","#","S","t","o","p","_","L","R","T","_","0","1">>, <<"S","t","a","s","i","u","n"," ","L","R","T"," ","D","u","k","u","h"," ","A","t","a","s">>, -40, 130),
       StopRow(<<"h","t","t","p",":","/","/","m","g",".","i","d","/","m","#","S","t","o","p","_","T","J","_","0","1">>, <<"H","a","l","t","e"," ","P","o","l","d","a">>, 30, 0),
       StopRow(<<"h","t","t","p",":","/","/","m","g",".","i","d","/","m","#","S","t","o","p","_","L","R","T","_","M","R","T","_","D","u","k","u","h","A","t","a","s">>, <<"S","t","a","s","i","u","n"," ","D","u","k","u","h"," ","A","t","a","s">>, -40, 120),
       StopRow(<<"h","t","t","p",":","/","/","m","g",".","i","d","/","s","t","o","p","s","/","H","a","l","t","e","_","K","a","r","e","t">>, <<"H","a","l","t","e"," ","K","a","r","e","t">>, 40, 10),
       StopRow(<<"h","t","t","p",":","/","/","m","g",".","i","d","/","m","#","S","t","o","p","_","M","R","T","_","L","R","T","_","C","a","w","a","n","g">>, <<"S","t","a","s","i","u","n"," ","C","a","w","a","n","g">>, -80, 300),
       StopRow(<<"h","t","t","p",":","/","/","m","g",".","i","d","/","m","#","S","t","o","p","_","T","J","_","0","3">>, <<"H","a","l","t","e"," ","S","e","t","i","a","b","u","d","i">>, 30, 130) >>

\* the rows of a data source that holds the stops numbered in chosen, in
\* result order
RowsAt(all_rows, chosen) ==
    [k \in 1..Cardinality(chosen) |->
        all_rows[CHOOSE i \in chosen : Cardinality({j \in chosen : j <= i}) = k]]

\* get_stops takes any string for mode, or None
LoaderModes == RouterModes \cup {NoMode}

InitLoader ==
    /\ \E chosen \in SUBSET (1..Len(InterchangeStopRows)) :
          /\ Cardinality(chosen) <= MaxStops
          /\ rows = RowsAt(InterchangeStopRows, chosen)
    /\ stops_by_id = <<>>
    /\ graph = EmptyGraph
    /\ phase = "loaded"
    /\ call = NoCall
    /\ itinerary = NoItinerary
    /\ result = NoResult
    /\ build = NoBuild
    /\ custom_ttl = {}

\* loader.get_stops(mode)
GetStops ==
    /\ \E mode \in LoaderModes :
          /\ call' = [op |-> "get_stops", mode |-> mode]
          /\ result' = [stops |-> get_stops(rows, mode)]
    /\ UNCHANGED <<custom_ttl, rows, stops_by_id, graph, phase, itinerary, build>>

NextLoader == GetStops

SpecLoader == InitLoader /\ [][NextLoader]_vars

(***************************************************************************)
(* build_graph over surface stops along one street                          *)
(***************************************************************************)
\* rows of the tr:StopPoint query over a data source whose surface stops
\* lie along one street that crosses four 0.01-degree grid cells
StreetStopRows ==
    << StopRow(<<"h","t","t","p",":","/","/","m","g",".","i","d","/","m","#","S","t","o","p","_","T","J","_","1","1">>, <<"H","a","l","t","e"," ","S","e","n","a","y","a","n">>, 5, 0),
       StopRow(<<"h","t","t","p",":","/","/","m","g",".","i","d","/","m","#","S","t","o","p","_","T","J","_","1","2">>, <<"H","a","l","t","e"," ","G","e","l","o","r","a">>, 5, 45),
       StopRow(<<"h","t","t","p",":","/","/","m","g",".","i","d","/","m","#","S","t","o","p","_","T","J","_","1","3">>, <<"H","a","l","t","e"," ","S","e","m","a","n","g","g","i">>, 5, 99),
       StopRow(<<"h","t","t","p",":","/","/","m","g",".","i","d","/","m","#","S","t","o","p","_","T","J","_","1","4">>, <<"H","a","l","t","e"," ","G","a","r","n","i","s","u","n">>, 5, 150),
       StopRow(<<"h","t","t","p",":","/","/","m","g",".","i","d","/","m","#","S","t","o","p","_","T","J","_","1","5">>, <<"H","a","l","t","e"," ","T","o","s","a","r","i">>, 5, 201),
       StopRow(<<"h","t","t","p",":","/","/","m","g",".","i","d","/","m","#","S","t","o","p","_","T","J","_","1","6">>, <<"H","a","l","t","e"," ","B","u","n","d","a","r","a","n"," ","H","I">>, 5, 260),
       StopRow(<<"h","t","t","p",":","/","/","m","g",".","i","d","/","m","#","S","t","o","p","_","T","J","_","1","7">>, <<"H","a","l","t","e"," ","S","a","r","i","n","a","h">>, 5, 330) >>

InitStreet ==
    /\ \E chosen \in SUBSET (1..Len(StreetStopRows)) :
          /\ Cardinality(chosen) <= MaxStops
          /\ rows = RowsAt(StreetStopRows, chosen)
    /\ stops_by_id = <<>>
    /\ graph = EmptyGraph
    /\ phase = "loaded"
    /\ call = NoCall
    /\ itinerary = NoItinerary
    /\ result = NoResult
    /\ build = NoBuild
    /\ custom_ttl = {}

NextStreet == Lifespan

SpecStreet == InitStreet /\ [][NextStreet]_vars

(***************************************************************************)
(* admin/crud.py: the custom stops of custom_routes.ttl                     *)
(***************************************************************************)
\* TR[local]: a URI of the namespace http://example.com/tr#
TR(local) == <<"h","t","t","p",":","/","/","e","x","a","m","p","l","e",".","c","o","m","/","t","r","#">> \o local

\* str.replace('-', '_')
ReplaceHyphens(s) == [k \in 1..Len(s) |-> IF s[k] = "-" THEN "_" ELSE s[k]]

\* the prefixes get_stop_by_id tries, in order
STOP_PREFIXES == << <<"C","u","s","t","o","m","_","S","t","o","p","_","M","R","T","_">>, <<"C","u","s","t","o","m","_","S","t","o","p","_","L","R","T","_">>, <<"C","u","s","t","o","m","_","S","t","o","p","_","T","J","_">> >>

\* (s, None, None) in g
HasSubject(g, s) == \E t \in g : t[1] = s

\* g.remove((s, None, None))
RemoveSubject(g, s) == {t \in g : t[1] # s}

\* g.value(s, p), default where the graph has no such triple; a triple is
\* <<subject, predicate, object>>
Value(g, s, p, default) ==
    IF \E t \in g : t[1] = s /\ t[2] = p
    THEN (CHOOSE t \in g : t[1] = s /\ t[2] = p)[3]
    ELSE default

\* text or default: the empty text is false
TextOr(text, default) == IF text = <<>> THEN default ELSE text

\* add_stop(stop_id, name, lat, lon, mode): the graph it saves; the call
\* returns True. A coordinate is kept as the number whose str() is stored,
\* float(str(x)) being x for a Python float.
add_stop(g, stop_id, name, lat, lon, mode) ==
    LET prefix == <<"C","u","s","t","o","m","_","S","t","o","p","_">> \o mode \o <<"_">>
        stop_uri == TR(prefix \o ReplaceHyphens(stop_id))
        g1 == IF HasSubject(g, stop_uri) THEN RemoveSubject(g, stop_uri) ELSE g
    IN  g1 \cup { <<stop_uri, "rdf:type", TR(<<"S","t","o","p","P","o","i","n","t">>)>>,
                  <<stop_uri, "schema:name", name>>,
                  <<stop_uri, "geo:lat", lat>>,
                  <<stop_uri, "geo:long", lon>>,
                  <<stop_uri, "tr:mode", mode>> }

\* delete_stop(stop_id): the graph of the file afterwards and the value returned
delete_stop(g, stop_id) ==
    LET stop_uri == TR(stop_id)
    IN  IF HasSubject(g, stop_uri)
        THEN [ttl |-> RemoveSubject(g, stop_uri), ok |-> TRUE]
        ELSE [ttl |-> g, ok |-> FALSE]

\* None, returned by get_stop_by_id
NoCustomStop == [none |-> TRUE]

\* get_stop_by_id(stop_id)
get_stop_by_id(g, stop_id) ==
    LET uri_of(k) == TR(STOP_PREFIXES[k] \o ReplaceHyphens(stop_id))
        found == {k \in 1..Len(STOP_PREFIXES) :
                     <<uri_of(k), "rdf:type", TR(<<"S","t","o","p","P","o","i","n","t">>)>> \in g}
    IN  IF found = {}
        THEN NoCustomStop
        ELSE LET stop_uri == uri_of(CHOOSE k \in found : \A j \in found : k <= j)
             IN  [id |-> stop_id,
                  uri |-> stop_uri,
                  name |-> Value(g, stop_uri, "schema:name", <<>>),
                  lat |-> Value(g, stop_uri, "geo:lat", 0),
                  lon |-> Value(g, stop_uri, "geo:long", 0),
                  mode |-> TextOr(Value(g, stop_uri, "tr:mode", <<>>), TJ)]

\* the most custom stops the file holds
MaxCustomStops == 2

\* the stops of the file
Subjects(g) == {t[1] : t \in g}

\* the ids, names and modes an administrator sends
AdminStopIds == { <<"b","l","o","k","_","m">>, <<"b","l","o","k","-","m">>, <<"C","u","s","t","o","m","_","S","t","o","p","_","T","J","_","b","l","o","k","_","m">> }
AdminStopNames == { <<"H","a","l","t","e"," ","B","l","o","k"," ","M">>, <<"H","a","l","t","e"," ","B","a","r","u">> }
AdminModes == SingleModes \cup { <<"B","U","S">> }

\* custom_routes.ttl as ensure_custom_ttl_exists creates it: no triples
InitAdmin ==
    /\ rows = <<>>
    /\ stops_by_id = <<>>
    /\ graph = EmptyGraph
    /\ phase = "ready"
    /\ call = NoCall
    /\ itinerary = NoItinerary
    /\ result = NoResult
    /\ build = NoBuild
    /\ custom_ttl = {}

\* POST /admin/api/stop: add_stop
AddStop ==
    /\ \E stop_id \in AdminStopIds, name \in AdminStopNames, mode \in AdminModes :
          LET lat == BaseLat + 10
              lon == BaseLong + 20
              saved == add_stop(custom_ttl, stop_id, name, lat, lon, mode)
          IN  /\ Cardinality(Subjects(saved)) <= MaxCustomStops
              /\ custom_ttl' = saved
              /\ call' = [op |-> "add_stop", stop_id |-> stop_id, name |-> name,
                          lat |-> lat, lon |-> lon, mode |-> mode]
              /\ result' = [ok |-> TRUE]
    /\ UNCHANGED <<rows, stops_by_id, graph, phase, itinerary, build>>

\* DELETE /admin/api/stop/{stop_id}: delete_stop
DeleteStop ==
    /\ \E stop_id \in AdminStopIds :
          /\ custom_ttl' = delete_stop(custom_ttl, stop_id).ttl
          /\ call' = [op |-> "delete_stop", stop_id |-> stop_id]
          /\ result' = [ok |-> delete_stop(custom_ttl, stop_id).ok]
    /\ UNCHANGED <<rows, stops_by_id, graph, phase, itinerary, build>>

\* GET /admin/api/stop/{stop_id}: get_stop_by_id
GetStopById ==
    /\ \E stop_id \in AdminStopIds :
          /\ call' = [op |-> "get_stop_by_id", stop_id |-> stop_id]
          /\ result' = [stop |-> get_stop_by_id(custom_ttl, stop_id)]
    /\ UNCHANGED <<custom_ttl, rows, stops_by_id, graph, phase, itinerary, build>>

NextAdmin ==
    \/ AddStop
    \/ DeleteStop
    \/ GetStopById

SpecAdmin == InitAdmin /\ [][NextAdmin]_vars
(***************************************************************************)
(* Properties                                                               *)
(***************************************************************************)
RouteReturned == call.op = "find_route" /\ "path" \in DOMAIN result

ItineraryReturned == call.op = "find_route_api" /\ "legs" \in DOMAIN result

\* the nodes and edges find_route may use under the mode filter of the call
SelectedNodes ==
    {graph.nodes[k].id : k \in {j \in 1..Len(graph.nodes) :
        \/ call.mode = ALL
        \/ graph.nodes[j].mode = call.mode}}

SelectedEdges ==
    {graph.edges[k] : k \in {j \in 1..Len(graph.edges) :
        /\ graph.edges[j].u \in SelectedNodes
        /\ graph.edges[j].v \in SelectedNodes
        /\ call.mode = ALL \/ graph.edges[j].mode = call.mode}}

\* the stops a directed path leads to from the stops in `from`
RECURSIVE ReachableFrom(_)
ReachableFrom(from) ==
    LET more == from \cup {e.v : e \in {d \in SelectedEdges : d.u \in from}}
    IN  IF more = from THEN from ELSE ReachableFrom(more)

\* the least sum of field `weight` over the directed paths from `source`,
\* by relaxing every edge until nothing improves
LeastCost(source, weight) ==
    LET Infinity == 1000000000
        Least(S) == CHOOSE x \in S : \A y \in S : x <= y
        RECURSIVE relax(_)
        relax(d) ==
            LET d2 == [n \in SelectedNodes |->
                          Least({d[n]} \cup {d[e.u] + e[weight] :
                                   e \in {x \in SelectedEdges : x.v = n /\ d[x.u] < Infinity}})]
            IN  IF d2 = d THEN d ELSE relax(d2)
    IN  relax([n \in SelectedNodes |-> IF n = source THEN 0 ELSE Infinity])

\* the sum of a field over the legs of a response
RECURSIVE LegTotal(_, _)
LegTotal(legs, field) ==
    IF legs = <<>> THEN 0 ELSE legs[1][field] + LegTotal(Tail(legs), field)

\* legs i..j are a maximal run of consecutive legs of one mode
IsMaximalRun(legs, i, j, mode) ==
    /\ i <= j
    /\ \A k \in i..j : legs[k].mode = mode
    /\ i = 1 \/ legs[i - 1].mode # mode
    /\ j = Len(legs) \/ legs[j + 1].mode # mode

\* C1: a successful find_route with one of the three weights returns a
\* directed path from start to end in the selected graph whose summed
\* weight is the least over all directed paths from start to end.
C1_LeastCostPath ==
    (RouteReturned /\ call.weight \in Weights) =>
        LET path == result.path
            edge(i) == CHOOSE e \in SelectedEdges : e.u = path[i] /\ e.v = path[i + 1]
            RECURSIVE cost(_)
            cost(i) == IF i >= Len(path) THEN 0 ELSE edge(i)[call.weight] + cost(i + 1)
        IN  /\ path # <<>>
            /\ path[1] = call.start_id
            /\ path[Len(path)] = call.end_id
            /\ \A i \in 1..(Len(path) - 1) :
                  \E e \in SelectedEdges : e.u = path[i] /\ e.v = path[i + 1]
            /\ cost(1) = LeastCost(call.start_id, call.weight)[call.end_id]

\* a route of at least two edges that is cheaper than an alternative with
\* fewer edges
C1_Witness ==
    /\ RouteReturned
    /\ call.weight = "distance_km"
    /\ Len(result.path) >= 4
    /\ \E e \in SelectedEdges, f \in SelectedEdges :
          e.u = call.start_id /\ e.v = f.u /\ f.v = call.end_id

\* C2: in a find_route result every maximal run of MRT legs is charged one
\* fare, on its last leg, computed from the run's first from_name and last
\* to_name; the other legs of the run cost 0.
C2_MrtRunFare ==
    RouteReturned =>
        \A i \in 1..Len(result.legs), j \in 1..Len(result.legs) :
            IsMaximalRun(result.legs, i, j, MRT) =>
                /\ result.legs[j].cost_idr =
                       calculate_mrt_fare(result.legs[i].from_name, result.legs[j].to_name)
                /\ \A k \in i..(j - 1) : result.legs[k].cost_idr = 0

\* an MRT run of two or more legs between stations of the fare table
C2_Witness ==
    /\ RouteReturned
    /\ \E i \in 1..Len(result.legs), j \in 1..Len(result.legs) :
          /\ IsMaximalRun(result.legs, i, j, MRT)
          /\ j > i
          /\ get_mrt_station_index(result.legs[i].from_name) # NoIndex
          /\ get_mrt_station_index(result.legs[j].to_name) # NoIndex
          /\ result.legs[j].cost_idr > 0
          /\ result.legs[i].cost_idr = 0

\* C3: in a find_route result every maximal run of TJ legs has the flat
\* fare 3500 on its first leg and 0 on all its other legs.
C3_TjRunFare ==
    RouteReturned =>
        \A i \in 1..Len(result.legs), j \in 1..Len(result.legs) :
            IsMaximalRun(result.legs, i, j, TJ) =>
                /\ result.legs[i].cost_idr = 3500
                /\ \A k \in (i + 1)..j : result.legs[k].cost_idr = 0

\* a TJ run of two or more legs
C3_Witness ==
    /\ RouteReturned
    /\ \E i \in 1..Len(result.legs), j \in 1..Len(result.legs) :
          /\ IsMaximalRun(result.legs, i, j, TJ)
          /\ j > i
          /\ result.legs[i].cost_idr = 3500
          /\ result.legs[j].cost_idr = 0

\* C4: in a find_route result over the full graph every leg over a transfer
\* edge costs 0.
C4_TransferLegsFree ==
    (RouteReturned /\ call.mode = ALL) =>
        \A k \in 1..Len(result.legs) :
            result.legs[k].is_transfer => result.legs[k].cost_idr = 0

\* a transfer leg in a route over the full graph
C4_Witness ==
    /\ RouteReturned
    /\ call.mode = ALL
    /\ \E k \in 1..Len(result.legs) : result.legs[k].is_transfer

\* C5: the MRT fare between two canonical stations is the same in both
\* directions.
C5_FareSymmetric ==
    (/\ call.op = "calculate_mrt_fare"
     /\ \E k \in 1..Len(MRT_STATIONS) : MRT_STATIONS[k] = call.from_station
     /\ \E k \in 1..Len(MRT_STATIONS) : MRT_STATIONS[k] = call.to_station) =>
        result.fare = calculate_mrt_fare(call.to_station, call.from_station)

\* a fare between two different canonical stations has been computed
C5_Witness ==
    /\ call.op = "calculate_mrt_fare"
    /\ call.from_station # call.to_station
    /\ \E k \in 1..Len(MRT_STATIONS) : MRT_STATIONS[k] = call.from_station
    /\ \E k \in 1..Len(MRT_STATIONS) : MRT_STATIONS[k] = call.to_station
    /\ result.fare # MrtFallbackFare

\* C6: the summary of a find_route result totals its legs: the cost and
\* the time exactly, the distance to the two decimals it is rounded to
\* (leg distances are in metres, the summary in units of 10 m).
C6_SummaryTotalsLegs ==
    RouteReturned =>
        /\ result.summary.total_cost_idr = LegTotal(result.legs, "cost_idr")
        /\ result.summary.total_time_minutes = LegTotal(result.legs, "time_minutes")
        /\ Abs(result.summary.total_distance_km * 10
               - LegTotal(result.legs, "distance_km")) <= 5

\* a route whose legs have a fare and a distance that the summary rounds
C6_Witness ==
    /\ RouteReturned
    /\ Len(result.legs) >= 2
    /\ result.summary.total_cost_idr > 0
    /\ LegTotal(result.legs, "distance_km") % 10 # 0

\* C7: the summary of an itinerary of find_route_api totals the legs the
\* response lists: the cost exactly, the distance and the time to the
\* decimals the summary is rounded to (10 m; a tenth of a minute).
C7_ItineraryTotalsLegs ==
    ItineraryReturned =>
        /\ result.summary.total_cost_idr = LegTotal(result.legs, "cost_idr")
        /\ Abs(result.summary.total_distance_km
               - LegTotal(result.legs, "distance_km")) <= 5
        /\ Abs(result.summary.total_time_minutes
               - LegTotal(result.legs, "time_minutes")) <= 5

\* an itinerary with a transit leg and a walking leg
C7_Witness ==
    /\ ItineraryReturned
    /\ \E k \in 1..Len(result.legs) : "is_walk" \in DOMAIN result.legs[k]
    /\ \E k \in 1..Len(result.legs) : "is_transfer" \in DOMAIN result.legs[k]

\* C8: find_route with a start or end id that is no node of the selected
\* graph returns an error that names the missing id (the start id when the
\* start is missing, else the end id) and raises no exception.
C8_NotFoundNamesId ==
    (/\ call.op = "find_route"
     /\ call.start_id \notin SelectedNodes \/ call.end_id \notin SelectedNodes) =>
        /\ "exception" \notin DOMAIN result
        /\ "error" \in DOMAIN result
        /\ Contains(result.error,
                    IF call.start_id \notin SelectedNodes
                    THEN call.start_id ELSE call.end_id)

\* the end stop is a node of the full graph that the mode filter leaves out
C8_Witness ==
    /\ call.op = "find_route"
    /\ call.start_id \in SelectedNodes
    /\ call.end_id \notin SelectedNodes
    /\ HasNode(graph, call.end_id)
    /\ "error" \in DOMAIN result

\* C9: under a mode filter, the not-found result of find_route names the
\* mode filter.
C9_NotFoundNamesMode ==
    (/\ call.op = "find_route"
     /\ call.mode # ALL
     /\ call.start_id \notin SelectedNodes \/ call.end_id \notin SelectedNodes) =>
        /\ "error" \in DOMAIN result
        /\ Contains(result.error, call.mode)

\* a not-found result under a mode filter
C9_Witness ==
    /\ call.op = "find_route"
    /\ call.mode \in {MRT, LRT, TJ}
    /\ call.start_id \in SelectedNodes
    /\ call.end_id \notin SelectedNodes
    /\ "error" \in DOMAIN result
    /\ Contains(result.error, call.end_id)

\* C10: when both endpoints are nodes of the selected graph and no directed
\* path leads from start to end, find_route returns an error naming the
\* start id, the end id and the mode filter, and raises no exception.
C10_NoPathNamesAll ==
    (/\ call.op = "find_route"
     /\ call.start_id \in SelectedNodes
     /\ call.end_id \in SelectedNodes
     /\ call.end_id \notin ReachableFrom({call.start_id})) =>
        /\ "exception" \notin DOMAIN result
        /\ "error" \in DOMAIN result
        /\ Contains(result.error, Concat(<< <<"'">>, call.start_id, <<"'">> >>))
        /\ Contains(result.error, Concat(<< <<"'">>, call.end_id, <<"'">> >>))
        /\ Contains(result.error, Concat(<< <<"m","o","d","e"," ","'">>, call.mode, <<"'">> >>))

\* two stops of the selected graph with no path between them
C10_Witness ==
    /\ call.op = "find_route"
    /\ call.start_id \in SelectedNodes
    /\ call.end_id \in SelectedNodes
    /\ call.end_id \notin ReachableFrom({call.start_id})
    /\ "error" \in DOMAIN result

\* C11: a find_route call whose mode is none of MRT, LRT, TJ, ALL, or whose
\* weight is none of time_minutes, distance_km, cost_idr, is rejected as
\* invalid: it returns no computed route and no "not found" result.
C11_InvalidRejected ==
    (/\ call.op = "find_route"
     /\ call.mode \notin Modes \/ call.weight \notin Weights) =>
        /\ "path" \notin DOMAIN result
        /\ "exception" \notin DOMAIN result
        /\ "error" \in DOMAIN result
        /\ ~Contains(result.error, <<"n","o","t"," ","f","o","u","n","d">>)

\* a call with an unknown weight that returned a route of two or more legs
C11_Witness ==
    /\ call.op = "find_route"
    /\ call.mode \in Modes
    /\ call.weight \notin Weights
    /\ "path" \in DOMAIN result
    /\ Len(result.path) >= 3

\* C12: a find_route_api request with an empty destination list is answered
\* with HTTP 400 "No destinations selected", whatever its start is.
C12_EmptyDestinationsRefused ==
    (/\ call.op = "find_route_api"
     /\ call.selected_places = <<>>
     /\ phase = "returned") =>
        result = HTTPException(400, <<"N","o"," ","d","e","s","t","i","n","a","t","i","o","n","s"," ","s","e","l","e","c","t","e","d">>)

\* a request with no destinations and a start given as coordinates
C12_Witness ==
    /\ call.op = "find_route_api"
    /\ call.selected_places = <<>>
    /\ call.start.type = "coord"
    /\ phase = "returned"
    /\ "http_error" \in DOMAIN result

\* build_graph has returned and no call is being served
GraphBuilt == phase = "ready"

\* the three single-mode filters

\* C13: for a mode filter M of MRT, LRT, TJ the filtered graph holds only
\* nodes of mode M and only edges of mode M between them, so every leg of a
\* successful find_route with filter M has mode M and is no transfer; with
\* no filter or ALL the graph is the full graph.
C13_FilteredGraphOneMode ==
    /\ GraphBuilt => \A M \in SingleModes :
          LET sub == get_filtered_graph(graph, M)
          IN  /\ \A k \in 1..Len(sub.nodes) : sub.nodes[k].mode = M
              /\ \A k \in 1..Len(sub.edges) :
                    /\ sub.edges[k].mode = M
                    /\ HasNode(sub, sub.edges[k].u)
                    /\ HasNode(sub, sub.edges[k].v)
    /\ GraphBuilt => get_filtered_graph(graph, ALL) = graph
    /\ GraphBuilt => get_filtered_graph(graph, NoMode) = graph
    /\ (RouteReturned /\ call.mode \in SingleModes) =>
          \A k \in 1..Len(result.legs) :
              /\ result.legs[k].mode = call.mode
              /\ ~result.legs[k].is_transfer
    /\ (RouteReturned /\ call.mode = ALL) =>
          \A i \in 1..(Len(result.path) - 1) :
              \E k \in 1..Len(graph.edges) :
                  graph.edges[k].u = result.path[i] /\ graph.edges[k].v = result.path[i + 1]

\* a route of two legs under a single-mode filter, from a stop that also
\* has a transfer edge to a stop of another mode
C13_Witness ==
    /\ RouteReturned
    /\ call.mode \in SingleModes
    /\ Len(result.legs) >= 2
    /\ \E k \in 1..Len(graph.edges) :
          graph.edges[k].u = call.start_id /\ graph.edges[k].is_transfer

\* C14: in the built graph every edge u -> v that carries the data a route
\* gave it has a reverse edge v -> u with the same distance_km,
\* time_minutes, cost_idr, mode and line.
C14_RouteEdgesMirrored ==
    GraphBuilt =>
        LET calls == RouteEdgeCalls(stops_by_id)
        IN  \A k \in 1..Len(calls) :
                EdgeData(graph, calls[k].u, calls[k].v) = calls[k] =>
                    LET e == calls[k]
                        r == EdgeData(graph, e.v, e.u)
                    IN  /\ r.distance_km = e.distance_km
                        /\ r.time_minutes = e.time_minutes
                        /\ r.cost_idr = e.cost_idr
                        /\ r.mode = e.mode
                        /\ r.line = e.line

\* a built graph in which a route edge between two surface stops is left
\* as the route made it
C14_Witness ==
    /\ GraphBuilt
    /\ \E k \in 1..Len(graph.edges) :
          /\ graph.edges[k].line = <<"K","o","r","i","d","o","r"," ","1"," ","E","k","s","p","r","e","s">>
          /\ _get_mode_from_id(graph.edges[k].u) = TJ
          /\ _get_mode_from_id(graph.edges[k].v) = TJ

\* the distance between two loaded stops, in decimetres
StopDistance(u, v) ==
    geodesic(DictGet(stops_by_id, u).lat, DictGet(stops_by_id, u).long,
             DictGet(stops_by_id, v).lat, DictGet(stops_by_id, v).long)

\* C15: in the built graph every transfer edge joins two stops of different
\* id-derived modes at most 0.5 km apart, and every pair of stops of
\* different modes within 0.5 km has both directed transfer edges, each
\* with the mode of its destination and 5 minutes added to the time the
\* distance takes at the speed of that mode.
C15_TransferEdges ==
    GraphBuilt =>
        /\ \A k \in 1..Len(graph.edges) :
              graph.edges[k].is_transfer =>
                  /\ _get_mode_from_id(graph.edges[k].u) # _get_mode_from_id(graph.edges[k].v)
                  /\ StopDistance(graph.edges[k].u, graph.edges[k].v) <= MAX_TRANSFER_DISTANCE
        /\ \A i \in 1..Len(stops_by_id), j \in 1..Len(stops_by_id) :
              LET u == stops_by_id[i].id
                  v == stops_by_id[j].id
              IN  (/\ _get_mode_from_id(u) # _get_mode_from_id(v)
                   /\ StopDistance(u, v) <= MAX_TRANSFER_DISTANCE) =>
                      \E k \in 1..Len(graph.edges) :
                          /\ graph.edges[k].u = u
                          /\ graph.edges[k].v = v
                          /\ graph.edges[k].is_transfer
                          /\ graph.edges[k].mode = _get_mode_from_id(v)
                          /\ graph.edges[k].time_minutes =
                                RoundDiv(StopDistance(u, v) * 6, SPEEDS(_get_mode_from_id(v)) * 10)
                                + TRANSFER_PENALTY * 100

\* a built graph with transfer edges into an LRT stop and into a bus stop,
\* and two stops of different modes too far apart for a transfer
C15_Witness ==
    /\ GraphBuilt
    /\ \E k \in 1..Len(graph.edges) : graph.edges[k].is_transfer /\ graph.edges[k].mode = LRT
    /\ \E k \in 1..Len(graph.edges) : graph.edges[k].is_transfer /\ graph.edges[k].mode = TJ
    /\ \E i \in 1..Len(stops_by_id), j \in 1..Len(stops_by_id) :
          /\ _get_mode_from_id(stops_by_id[i].id) # _get_mode_from_id(stops_by_id[j].id)
          /\ StopDistance(stops_by_id[i].id, stops_by_id[j].id) > MAX_TRANSFER_DISTANCE
          /\ StopDistance(stops_by_id[i].id, stops_by_id[j].id) <= 2 * MAX_TRANSFER_DISTANCE

\* the outgoing edges of stop u that _build_tj_edges made
ProximityEdges(u) ==
    {k \in 1..Len(graph.edges) :
        graph.edges[k].u = u /\ graph.edges[k].line = <<"T","r","a","n","s","J","a","k","a","r","t","a">>}

\* the other surface stops within 1.5 km of stop u by the planar measure
SurfaceInRange(u) ==
    {j \in 1..Len(stops_by_id) :
        /\ stops_by_id[j].id # u
        /\ _get_mode_from_id(stops_by_id[j].id) = TJ
        /\ GroundDistance(DictGet(stops_by_id, u).lat, DictGet(stops_by_id, u).long,
                          stops_by_id[j].lat, stops_by_id[j].long) <= TjThresholdDm}

\* C20: in the built graph every surface stop has at most 3 outgoing
\* proximity edges, each to another surface stop within 1.5 km, no two to
\* the same stop, however many stops lie in range.
C20_ProximityCap ==
    GraphBuilt =>
        \A i \in 1..Len(stops_by_id) :
            LET u == stops_by_id[i].id
            IN  _get_mode_from_id(u) = TJ =>
                    /\ Cardinality(ProximityEdges(u)) <= MAX_CONNECTIONS
                    /\ \A k \in ProximityEdges(u) :
                          \E j \in SurfaceInRange(u) : stops_by_id[j].id = graph.edges[k].v
                    /\ \A k \in ProximityEdges(u), k2 \in ProximityEdges(u) :
                          k # k2 => graph.edges[k].v # graph.edges[k2].v

\* a surface stop with four other surface stops in range and three
\* proximity edges
C20_Witness ==
    /\ GraphBuilt
    /\ \E i \in 1..Len(stops_by_id) :
          /\ _get_mode_from_id(stops_by_id[i].id) = TJ
          /\ Cardinality(SurfaceInRange(stops_by_id[i].id)) > MAX_CONNECTIONS
          /\ Cardinality(ProximityEdges(stops_by_id[i].id)) = MAX_CONNECTIONS

\* the legs that the step to the next state appends to the itinerary
AppendedLegs ==
    SubSeq(itinerary'.totals.legs, Len(itinerary.totals.legs) + 1,
           Len(itinerary'.totals.legs))

\* the walk from the resolved stop of a destination to the destination
LastWalk(dest) ==
    haversine_distance(DictGet(stops_by_id, dest.nearest_stop).lat,
                       DictGet(stops_by_id, dest.nearest_stop).long, dest.lat, dest.lon)

\* one iteration of find_route_api's loop ends at the resolved stop of its
\* destination
ReachesDestination ==
    /\ phase = "routing"
    /\ "next" \in DOMAIN itinerary'
    /\ itinerary'.next = itinerary.next + 1
    /\ itinerary'.totals.current_stop =
          itinerary.destination_info[itinerary.next].nearest_stop

\* C19: when an iteration of the itinerary loop reaches the resolved stop of
\* its destination, it appends no walking leg if the stop lies at most 30 m
\* from the destination, and otherwise exactly one, as its last leg, with
\* mode WALK, a distance above 0 and cost 0.
C19_WalkingLegThreshold ==
    [][ReachesDestination =>
          LET dest == itinerary.destination_info[itinerary.next]
              is_walk(leg) == leg.mode = WALK
              walks == SelectSeq(AppendedLegs, is_walk)
          IN  /\ LastWalk(dest) <= WalkThresholdDm => walks = <<>>
              /\ LastWalk(dest) > WalkThresholdDm =>
                    /\ Len(walks) = 1
                    /\ AppendedLegs[Len(AppendedLegs)] = walks[1]
                    /\ walks[1].distance_km > 0
                    /\ walks[1].cost_idr = 0]_vars

\* an itinerary whose first destination was reached by transit with a walk
\* appended, and whose second was reached by transit at a stop 22 m from it
\* with no walk appended
C19_Witness ==
    /\ phase = "routing"
    /\ itinerary.next = 3
    /\ Len(itinerary.totals.legs) >= 3
    /\ \E k \in 2..(Len(itinerary.totals.legs) - 1) :
          /\ itinerary.totals.legs[k].mode = WALK
          /\ itinerary.totals.legs[k].distance_km > 0
          /\ itinerary.totals.legs[k - 1].mode # WALK
    /\ itinerary.totals.legs[Len(itinerary.totals.legs)].mode # WALK
    /\ LastWalk(itinerary.destination_info[2]) > 0
    /\ LastWalk(itinerary.destination_info[2]) <= WalkThresholdDm
    /\ itinerary.totals.current_stop = itinerary.destination_info[2].nearest_stop


C16_EarlierGraphKept ==
    build.earlier # NoGraph => graph = build.earlier

\* build_graph has returned a second time, after the data gained a stop
C16_Witness ==
    /\ build.stage = "idle"
    /\ build.count >= 2
    /\ Len(stops_by_id) > Len(build.earlier.nodes)

\* a request is served: the application leaves "ready" with a response
ServesRequest == phase = "ready" /\ phase' = "returned"

\* C17: a routing request served while build_graph runs reads the complete
\* previous graph or the complete new one, never a graph in between.
C17_NoPartialGraphRead ==
    [][ServesRequest =>
          \/ graph = build.returned
          \/ graph = build_graph(build.returned, rows).graph]_vars

\* find_route was served between two steps of a later build_graph and found
\* no route to a stop that the previous graph does not hold
C17_Witness ==
    /\ phase = "returned"
    /\ call.op = "find_route"
    /\ "during" \in DOMAIN call
    /\ call.during \in {"nodes", "routes", "tj"}
    /\ build.count >= 1
    /\ ~HasNode(build.returned, call.end_id)
    /\ result = NoRouteFound(call.start_id, call.end_id, ALL)

(***************************************************************************)
(* Loader filter, fares, tour order and what a route reports                *)
(***************************************************************************)
\* the stop of a row is in a list of stops
Returned(stops, row) == \E k \in 1..Len(stops) : stops[k].uri = row.uri

\* C21: for every loaded stop and every mode M of MRT, LRT, TJ,
\* get_stops(M) returns the stop if and only if _get_mode_from_id gives its
\* id the mode M; the three filtered lists partition the full list.
C21_FilterMatchesNodeMode ==
    /\ (call.op = "get_stops" /\ call.mode \in SingleModes) =>
           \A k \in 1..Len(rows) :
               Returned(result.stops, rows[k])
                   <=> _get_mode_from_id(LocalId(rows[k].uri)) = call.mode
    /\ \A k \in 1..Len(rows) :
           Cardinality({M \in SingleModes : Returned(get_stops(rows, M), rows[k])}) = 1

\* get_stops("LRT") has returned a stop whose id names both rail systems
C21_Witness ==
    /\ call.op = "get_stops"
    /\ call.mode = LRT
    /\ \E k \in 1..Len(result.stops) :
          /\ Contains(result.stops[k].id, MRT)
          /\ Contains(result.stops[k].id, LRT)

\* the least whole number of kilometres that covers the metres beyond the
\* first kilometre
KmBeyondFirst(distance_m) ==
    CHOOSE n \in 0..(distance_m \div 1000 + 1) :
        /\ n * 1000 >= distance_m - 1000
        /\ (n - 1) * 1000 < distance_m - 1000

\* C22: calculate_lrt_fare(d) is the base fare 5000 for d <= 1 km and, for
\* d > 1 km, 5000 plus 700 for every kilometre beyond the first, the excess
\* rounded up to whole kilometres; the fare is a non-negative integer and
\* does not decrease as d grows.
C22_LrtFare ==
    call.op = "calculate_lrt_fare" =>
        /\ call.distance_m <= 1000 => result.fare = 5000
        /\ call.distance_m > 1000 =>
               result.fare = 5000 + 700 * KmBeyondFirst(call.distance_m)
        /\ result.fare \in Nat
        /\ \A shorter \in FareDistances :
               shorter <= call.distance_m => calculate_lrt_fare(shorter) <= result.fare

\* the fare of 2.001 km charges three kilometres: the first and two more
C22_Witness ==
    /\ call.op = "calculate_lrt_fare"
    /\ call.distance_m = 2001
    /\ result.fare = 6400

\* the tour of a find_multi_stop_route call has been ordered
TourOrdered == call.op = "find_multi_stop_route" /\ phase = "touring"

\* where the tour stands before its k-th place: the start stop, then the
\* resolved stop of the place before
TourPosition(k) ==
    IF k = 1 THEN call.start_id
    ELSE PoiStop(stops_by_id, itinerary.ordered_pois[k - 1])

\* every position of the tour is a loaded stop
TourPositionsKnown ==
    \A k \in 1..(Len(itinerary.ordered_pois) + 1) : DictHas(stops_by_id, TourPosition(k))

\* the great-circle distance from a stop to a place: to the bound stop of
\* the place if it has one, else to the coordinates of the place
DistanceToPlace(stop_id, poi) ==
    LET from == DictGet(stops_by_id, stop_id)
    IN  IF poi.nearStop # <<>>
        THEN geodesic(from.lat, from.long, DictGet(stops_by_id, poi.nearStop).lat,
                      DictGet(stops_by_id, poi.nearStop).long)
        ELSE geodesic(from.lat, from.long, poi.lat, poi.long)

\* C23: the multi-destination tour visits the places in greedy
\* nearest-neighbour order: each place is the one, among those not yet
\* visited, at the smallest great-circle distance from the current position,
\* measured to the bound stop of a place that has one and to the place's
\* own coordinates otherwise; the position then moves to the resolved stop
\* of the place.
C23_NearestNeighbourOrder ==
    (TourOrdered /\ TourPositionsKnown) =>
        \A k \in 1..Len(itinerary.ordered_pois) :
            \A j \in k..Len(itinerary.ordered_pois) :
                DistanceToPlace(TourPosition(k), itinerary.ordered_pois[k])
                    <= DistanceToPlace(TourPosition(k), itinerary.ordered_pois[j])

\* a tour of two places from a loaded stop, one of the places having a
\* bound stop, has been ordered
C23_Witness ==
    /\ TourOrdered
    /\ TourPositionsKnown
    /\ Len(itinerary.ordered_pois) = 2
    /\ \E k \in 1..2 : itinerary.ordered_pois[k].nearStop # <<>>

\* stops u and v are next to each other in the declared sequence of a route
ConsecutiveIn(route, u, v) ==
    \E i \in 1..(Len(route.stops) - 1) :
        \/ LocalId(route.stops[i]) = u /\ LocalId(route.stops[i + 1]) = v
        \/ LocalId(route.stops[i]) = v /\ LocalId(route.stops[i + 1]) = u

\* the edges of the graph that _build_route_edges made for a route
EdgesOfRoute(route) ==
    LET of_route(e) == e.line = route.name /\ ~e.is_transfer
    IN  SelectSeq(graph.edges, of_route)

\* C24: a fixed-route edge joins only two loaded stops that are consecutive
\* in the declared stop sequence of its route; a referenced stop that is
\* not loaded gets no edge and its two neighbours in the sequence are not
\* joined across the gap.
C24_RouteEdgesConsecutive ==
    GraphBuilt =>
        \A r \in 1..Len(get_routes) :
            \A k \in 1..Len(EdgesOfRoute(get_routes[r])) :
                LET e == EdgesOfRoute(get_routes[r])[k]
                IN  /\ DictHas(stops_by_id, e.u)
                    /\ DictHas(stops_by_id, e.v)
                    /\ ConsecutiveIn(get_routes[r], e.u, e.v)

\* a graph is built from data that holds both neighbours of a stop the
\* route names and the data lacks
C24_Witness ==
    /\ GraphBuilt
    /\ \E r \in 1..Len(get_routes) :
          \E i \in 2..(Len(get_routes[r].stops) - 1) :
              /\ ~DictHas(stops_by_id, LocalId(get_routes[r].stops[i]))
              /\ DictHas(stops_by_id, LocalId(get_routes[r].stops[i - 1]))
              /\ DictHas(stops_by_id, LocalId(get_routes[r].stops[i + 1]))

\* the legs of a route that are transfers, in leg order
TransferLegs(legs) == LET is_tr(leg) == leg.is_transfer IN SelectSeq(legs, is_tr)

\* C25: the transfers list of a find_route result has one entry for each
\* leg with is_transfer true, in leg order; the entry records the name of
\* the stop the leg leaves, the mode of that stop as from_mode and the mode
\* of the stop the leg enters as to_mode, and the two modes differ.
C25_TransfersListLegs ==
    RouteReturned =>
        /\ Len(result.transfers) = Len(TransferLegs(result.legs))
        /\ \A k \in 1..Len(result.transfers) :
               LET leg == TransferLegs(result.legs)[k]
                   entry == result.transfers[k]
               IN  /\ entry.at = DictGet(stops_by_id, leg.from).name
                   /\ entry.from_mode = _get_mode_from_id(leg.from)
                   /\ entry.to_mode = _get_mode_from_id(leg.to)
                   /\ entry.from_mode # entry.to_mode

\* a route with two transfers and a ride between them
C25_Witness ==
    /\ RouteReturned
    /\ Len(result.transfers) >= 2
    /\ Len(result.legs) > Len(result.transfers)

\* the features of the geojson of a route, and those of one geometry type
Features == result.geojson.features

LineFeatures ==
    LET is_line(f) == f.geometry.type = "LineString" IN SelectSeq(Features, is_line)

PointFeatures ==
    LET is_point(f) == f.geometry.type = "Point" IN SelectSeq(Features, is_point)

\* C26: the geojson of a find_route result with n >= 1 coordinates holds one
\* LineString over the whole path and n Points, one for each coordinate in
\* order: the first tagged start, the last tagged end, every other one
\* tagged stop; this includes n = 1, where the first point is the last.
C26_GeojsonFeatures ==
    (RouteReturned /\ Len(result.geometry) >= 1) =>
        LET n == Len(result.geometry)
        IN  /\ Len(Features) = n + 1
            /\ Len(LineFeatures) = 1
            /\ LineFeatures[1].geometry.coordinates =
                   [k \in 1..n |-> <<result.geometry[k][2], result.geometry[k][1]>>]
            /\ Len(PointFeatures) = n
            /\ \A k \in 1..n :
                   PointFeatures[k].geometry.coordinates =
                       <<result.geometry[k][2], result.geometry[k][1]>>
            /\ PointFeatures[1].properties.type = "start"
            /\ PointFeatures[n].properties.type = "end"
            /\ \A k \in 2..(n - 1) : PointFeatures[k].properties.type = "stop"

\* find_route from a stop to itself has returned a route of one coordinate
C26_Witness ==
    /\ RouteReturned
    /\ Len(result.geometry) = 1
    /\ Len(result.path) = 1

\* find_multi_stop_route has returned a tour
TourReturned ==
    /\ call.op = "find_multi_stop_route"
    /\ phase = "returned"
    /\ "visited_pois" \in DOMAIN result

\* the places of interest that the poi_ids of the call name
SelectedPois ==
    {p \in {get_places_of_interest[k] : k \in 1..Len(get_places_of_interest)} :
        \E k \in 1..Len(call.poi_ids) : call.poi_ids[k] = p.id}

\* C27: find_multi_stop_route visits every selected place of interest
\* exactly once: visited_pois is a permutation of the selected places, also
\* when the start id or the bound stop of a place is no loaded stop.
C27_VisitsEverySelected ==
    TourReturned =>
        /\ Len(result.visited_pois) = Cardinality(SelectedPois)
        /\ \A p \in SelectedPois :
               Cardinality({k \in 1..Len(result.visited_pois) :
                               result.visited_pois[k] = p.name}) = 1

\* a tour of two selected places from a start id that is no loaded stop
C27_Witness ==
    /\ TourReturned
    /\ Cardinality(SelectedPois) = 2
    /\ ~DictHas(stops_by_id, call.start_id)

\* C28: in an itinerary of find_route_api, a destination whose transit
\* segment failed contributes no leg that pretends it was reached: every
\* walking leg to a destination starts at the resolved stop of that
\* destination, and a request returns an itinerary only if it ends at the
\* resolved stop of one of its destinations.
C28_FailedSegmentNoLegs ==
    ItineraryReturned =>
        /\ \A k \in 1..Len(result.legs) :
               result.legs[k].mode = <<"W","A","L","K">> =>
                   \E d \in 1..Len(result.destinations) :
                       /\ result.destinations[d].slug = result.legs[k].to
                       /\ result.destinations[d].nearest_stop = result.legs[k].from
        /\ \E d \in 1..Len(result.destinations) :
               result.destinations[d].nearest_stop = result.end_stop

\* an itinerary has returned whose only legs are walks that start at a stop
\* which is the resolved stop of none of its destinations
C28_Witness ==
    /\ ItineraryReturned
    /\ result.legs # <<>>
    /\ \A k \in 1..Len(result.legs) : result.legs[k].mode = <<"W","A","L","K">>
    /\ \A d \in 1..Len(result.destinations) :
           result.destinations[d].nearest_stop # result.end_stop

\* the stops that the proximity edges of stop u lead to
ProximityTargets(u) == {graph.edges[k].v : k \in ProximityEdges(u)}

\* the planar distance from stop u to the j-th loaded stop, in decimetres
PlanarTo(u, j) ==
    GroundDistance(DictGet(stops_by_id, u).lat, DictGet(stops_by_id, u).long,
                   stops_by_id[j].lat, stops_by_id[j].long)

\* C29: in the built graph the proximity edges of every surface stop lead
\* to the min(3, k) nearest of all k other surface stops within 1.5 km by
\* the planar measure: the lookup over the stop's grid cell and its 8
\* neighbours misses no stop in range.
C29_NearestOfAllInRange ==
    GraphBuilt =>
        \A i \in 1..Len(stops_by_id) :
            LET u == stops_by_id[i].id
            IN  _get_mode_from_id(u) = TJ =>
                    /\ Cardinality(ProximityTargets(u)) =
                          (IF Cardinality(SurfaceInRange(u)) < MAX_CONNECTIONS
                           THEN Cardinality(SurfaceInRange(u)) ELSE MAX_CONNECTIONS)
                    /\ \A j \in SurfaceInRange(u) :
                          stops_by_id[j].id \notin ProximityTargets(u) =>
                              \A t \in SurfaceInRange(u) :
                                  stops_by_id[t].id \in ProximityTargets(u) =>
                                      PlanarTo(u, t) <= PlanarTo(u, j)

\* a surface stop with at most 3 other surface stops within 1.5 km, one of
\* them two grid cells away and without a proximity edge from the stop
C29_Witness ==
    /\ GraphBuilt
    /\ \E i \in 1..Len(stops_by_id) :
          LET u == stops_by_id[i].id
          IN  /\ _get_mode_from_id(u) = TJ
              /\ Cardinality(SurfaceInRange(u)) <= MAX_CONNECTIONS
              /\ \E j \in SurfaceInRange(u) :
                    /\ stops_by_id[j].id \notin ProximityTargets(u)
                    /\ TruncDiv(stops_by_id[j].long, BIN_SIZE)
                          - TruncDiv(stops_by_id[i].long, BIN_SIZE) \in {2, -2}

\* the last call was add_stop with one of the modes MRT, LRT, TJ
StopAdded == call.op = "add_stop" /\ call.mode \in SingleModes

\* the stop the last call of add_stop added, as get_stop_by_id reports it
AddedStop ==
    [id |-> call.stop_id,
     uri |-> TR(<<"C","u","s","t","o","m","_","S","t","o","p","_">> \o call.mode \o <<"_">> \o ReplaceHyphens(call.stop_id)),
     name |-> call.name, lat |-> call.lat, lon |-> call.lon, mode |-> call.mode]

\* C30: after add_stop(id, ..., mode) with mode MRT, LRT or TJ,
\* get_stop_by_id(id) returns the stop; a delete_stop(id) that follows
\* returns True and leaves get_stop_by_id(id) returning None.
C30_AddDeleteInverse ==
    /\ [](StopAdded => get_stop_by_id(custom_ttl, call.stop_id) = AddedStop)
    /\ [][(StopAdded /\ call'.op = "delete_stop" /\ call'.stop_id = call.stop_id) =>
             (result'.ok /\ get_stop_by_id(custom_ttl', call.stop_id) = NoCustomStop)]_vars

\* delete_stop(id) has returned False and get_stop_by_id(id) still returns
\* a stop
C30_Witness ==
    /\ call.op = "delete_stop"
    /\ ~result.ok
    /\ get_stop_by_id(custom_ttl, call.stop_id) # NoCustomStop
=============================================================================
